---- MODULE Spec2Model ----
(***************************************************************************)
(* Task orchestration of the two consumer stages:                          *)
(*   stage "b": agent_b_web/app.py, the parallel worker pool;              *)
(*   stage "c": agent_c_queue/app.py, the sequential lane.                 *)
(* The two stages are separate processes; a behaviour is a run of one of   *)
(* them, chosen in Init.  The broker and the pika connection are the       *)
(* environment: a connection can be lost at any time, unacknowledged       *)
(* messages are then requeued by the broker and delivered again.           *)
(***************************************************************************)
EXTENDS Integers, Sequences, FiniteSets

\* ------------------------------------------------------------------ bounds
MaxMsgs == 2            \* messages published to the stage's queue
MaxDeliveries == 2      \* deliveries the broker makes, redeliveries included
MaxFiles == 1           \* *.json files a scan of OUT_DIR may find
max_workers == 1        \* MAX_WORKERS, the configured pool size
MaxArtifacts == 2       \* lane specification: cti_*_*.json files a scan may find
poll_interval == 1      \* wait_for_agent_c_task: sleep between polls, in ticks
timeout == 2            \* wait_for_agent_c_task: time allowed, in ticks
MaxLatency == 1         \* ticks one requests.get may take beyond the sleep

Msgs == 1..MaxMsgs
Deliveries == 1..MaxDeliveries

\* ------------------------------------------------------------ python None
NoTime == 0             \* started_at / completed_at = None
NoCount == -1           \* file_count = None
NoFiles == <<-1>>       \* processed_files = None
NoText == "None"        \* error / agent_c_task_id = None
NoTask == [status |-> "absent"]

\* Bodies: "json" is a JSON object, "malformed" is not JSON.
BodyKinds == {"json", "malformed"}
\* A body that is JSON but not an object: an array, a string, a number, null.
NonObject == "non_object"
JsonTexts == BodyKinds \cup {NonObject}

\* exception texts (str(e))
TransformError == "TransformError"
HandoffError == "ConnectionWrongStateError"
StagingError == "StagingError"

VARIABLES
    stage,          \* "b" or "c": which program this run is
    body,           \* broker: body kind of each message
    broker,         \* broker: "ready" | "unacked" | "acked" per message
    ndeliv,         \* deliveries made so far; delivery d has tag d
    dmsg,           \* message carried by each delivery (0: not made)
    dlive,          \* the connection the delivery arrived on is still open
    connOpen,       \* start_consumer's newest connection is open
    callbacks,      \* add_callback_threadsafe queue of the open connection
    issued,         \* per delivery: channel operations the code requested
    applied,        \* per delivery: operations executed on the channel
    mpc,            \* start_consumer thread: position
    cancelled,      \* KeyboardInterrupt was raised in start_consumer
    md,             \* delivery on_message is handling (stage c), else 0
    tasks_storage,  \* task id (= delivery; producer: submission) -> record, NoTask if absent
    workq,          \* stage b: ThreadPoolExecutor work queue
    wpc,            \* worker thread (producer: background task) position
    wd,             \* worker thread (producer: background task): task / delivery in hand
    wexc,           \* worker thread: text of the exception caught (producer: run_response.error)
    analysis_queue, \* stage c: Queue of task ids
    current_task_id,\* stage c: task id or 0 (None)
    cti_files,      \* stage c worker: number of artifacts discovered
    idx,            \* stage c worker: index of the artifact in hand (from 1)
    requests,       \* remote service: <<task, kind>> of every request sent
    elapsed,        \* TaskProcessor, wait_for_agent_c_task: time.time() - start_time
    success,        \* TaskProcessor: result of the wait, or "none"
    outcome,        \* TaskProcessor: how each artifact of the task in hand ended
    tasks_lock,     \* threading.Lock(): the thread holding it, or Unlocked
    stmt,           \* per writer: next statement of its `with tasks_lock` body (0: outside)
    apc,            \* API thread: position in list_tasks / get_task_status
    all_tasks,      \* API thread: references to registry records (all_tasks / task_data)
    task_infos,     \* API thread: the TaskInfo models built so far
    query,          \* API thread: query parameters of the GET /tasks being served
    queue,          \* broker: the queue as declared, and the messages in it
    publisher,      \* producer: position and locals of the publish call in progress
    prefetch_count  \* consumer's newest channel: basic_qos prefetch_count (0: not set)

brokerVars == <<body, broker, ndeliv, dmsg, dlive>>
connVars == <<connOpen, callbacks, cancelled>>
chanVars == <<issued, applied>>
workerVars == <<wpc, wd, wexc>>
seqVars == <<analysis_queue, current_task_id, cti_files, idx>>
laneVars == <<requests, elapsed, success, outcome>>
regVars == <<tasks_lock, stmt, apc, all_tasks, task_infos>>
pubVars == <<queue, publisher>>
vars == <<stage, body, broker, ndeliv, dmsg, dlive, connOpen,
          callbacks, cancelled, issued, applied, mpc, md, tasks_storage, workq, wpc, wd,
          wexc, analysis_queue, current_task_id, cti_files, idx,
          requests, elapsed, success, outcome,
          tasks_lock, stmt, apc, all_tasks, task_infos, query,
          queue, publisher, prefetch_count>>

\* -------------------------------------------------------------- threads
\* Stage b: the executor's threads.  Stage c: TaskProcessor threads.
\* One more thread than the code ever starts is declared, so that starting
\* too many is a state the model can represent.
ExecutorThreadsOffByOne == max_workers + 1
\* ThreadPoolExecutor(max_workers=max_workers)
ExecutorThreads == max_workers

Threads == 1..(max_workers + 1)

\* Threads that touch the registry: the start_consumer thread, the worker
\* threads, and the thread running the FastAPI event loop.
MainThread == 0
ApiThread == max_workers + 2
Writers == {MainThread} \cup Threads
Unlocked == -1

Terminal == {"completed", "failed"}
Active == {"processing", "waiting_for_agent_c"}

\* ------------------------------------------------------------- registry
\* A timestamp is modelled by the ordinal of the write that stored it in its
\* field: datetime.now() gives a later value at every later call, so a field
\* written again holds a different value.
Now(old) == old + 1

NewTask(initial) ==
    [status |-> initial, created_at |-> Now(NoTime), started_at |-> NoTime,
     completed_at |-> NoTime, file_count |-> NoCount,
     processed_files |-> NoFiles, agent_c_task_id |-> NoText,
     error |-> NoText]

Exists(t) == tasks_storage[t] # NoTask

\* The queue before anybody declared it, and a producer that is not
\* publishing.
NoQueue == [declared |-> "none", messages |-> <<>>]
Idle == [pc |-> "idle", connection |-> "None", error |-> NoText, result |-> "none",
         message |-> 0, kind |-> "json", declared |-> FALSE, published |-> FALSE]

NoPublisher ==
    /\ queue = NoQueue
    /\ publisher = Idle

\* list_tasks(status: Optional[str] = None, limit: int = 100): the defaults.
NoQuery == [status |-> NoText, limit |-> 100]

\* tasks_lock = threading.Lock() is free and no API request is being served.
NoRequest ==
    /\ tasks_lock = Unlocked
    /\ stmt = [a \in Writers |-> 0]
    /\ apc = "idle"
    /\ all_tasks = <<>>
    /\ task_infos = <<>>
    /\ query = NoQuery

\* A decoder that accepts every body.
json_loads_lenient(kind) == TRUE

\* json.loads(body) returns (TRUE) or raises JSONDecodeError (FALSE): it
\* returns for every JSON text, whatever the type of the value.
json_loads(kind) == kind # "malformed"

\* A queue that hands out the newest entry first (LifoQueue).
queue_put_lifo(q, x) == <<x>> \o q

\* A put() that enters the item twice.
queue_put_twice(q, x) == Append(Append(q, x), x)

\* analysis_queue = Queue(): put() appends, get() takes the oldest entry.
queue_put(q, x) == Append(q, x)

Requeue(b) == [m \in Msgs |-> IF b[m] = "unacked" THEN "ready" ELSE b[m]]

Unacked == {m \in Msgs : broker[m] = "unacked"}

\* basic_qos(prefetch_count=...)
Prefetch == IF stage = "b" THEN max_workers ELSE 1

\* ------------------------------------------------------------------ Init
\* Module-level state of either program before main() runs, and a broker
\* queue holding MaxMsgs messages with arbitrary bodies.
InitWith(kinds) ==
    /\ stage \in {"b", "c"}
    /\ body \in [Msgs -> kinds]
    /\ broker = [m \in Msgs |-> "ready"]
    /\ ndeliv = 0
    /\ dmsg = [d \in Deliveries |-> 0]
    /\ dlive = [d \in Deliveries |-> FALSE]
    /\ connOpen = FALSE
    /\ callbacks = <<>>
    /\ issued = [d \in Deliveries |-> <<>>]
    /\ applied = [d \in Deliveries |-> <<>>]
    /\ mpc = "init"
    /\ cancelled = FALSE
    /\ md = 0
    /\ tasks_storage = [d \in Deliveries |-> NoTask]
    /\ workq = <<>>
    /\ wpc = [w \in Threads |-> "none"]
    /\ wd = [w \in Threads |-> 0]
    /\ wexc = [w \in Threads |-> NoText]
    /\ analysis_queue = <<>>
    /\ current_task_id = 0
    /\ cti_files = [w \in Threads |-> 0]
    /\ idx = [w \in Threads |-> 0]
    /\ requests = {}
    /\ elapsed = 0
    /\ success = "none"
    /\ outcome = <<>>
    /\ NoPublisher
    /\ prefetch_count = 0
    /\ NoRequest

Init == InitWith(BodyKinds)

\* ------------------------------------------------- channel and hand-off
\* A channel operation executed by thread `th` (0: the thread that owns the
\* connection) for delivery d: the broker settles the message if the
\* delivery is still outstanding on this connection.
ChannelOp(op, d, th) ==
    /\ applied' = [applied EXCEPT ![d] = Append(@, [op |-> op, thread |-> th, live |-> dlive[d]])]
    /\ broker' = IF dlive[d] /\ broker[dmsg[d]] = "unacked"
                 THEN [broker EXCEPT ![dmsg[d]] = IF op = "ack" THEN "acked" ELSE "ready"]
                 ELSE broker

\* A hand-off that goes to whichever connection is the newest one.
NewestConnectionUsable(d) == connOpen

\* The connection delivery d arrived on is still open
\* (BlockingConnection.add_callback_threadsafe raises otherwise).
ConnectionUsable(d) == dlive[d]

\* A worker thread calling the channel itself instead of handing off.
direct_channel_call(op, d, w) ==
    /\ ChannelOp(op, d, w)
    /\ UNCHANGED callbacks

\* channel.connection.add_callback_threadsafe(lambda: channel.basic_xxx(tag)):
\* worker w only enqueues the callback; the owning thread runs it later.
add_callback_threadsafe(op, d, w) ==
    /\ callbacks' = Append(callbacks, <<op, d>>)
    /\ UNCHANGED <<applied, broker>>

\* ------------------------------------------------- start_consumer thread
\* Positions of start_consumer at which a stage c TaskProcessor thread is
\* started, were it started inside the reconnect loop.
StartsProcessorInLoop(pos) == pos \in {"init", "connect"}

\* threading.Thread(target=task_processor_worker).start() precedes the
\* `while True` reconnect loop.
StartsProcessor(pos) == pos = "init"

NotStarted == {w \in Threads : wpc[w] = "none"}

StartThread(pos) ==
    IF StartsProcessor(pos) /\ NotStarted # {}
    THEN [wpc EXCEPT ![CHOOSE w \in NotStarted : \A v \in NotStarted : w <= v] = "get"]
    ELSE wpc

\* Entry of start_consumer up to the reconnect loop: stage b creates the
\* executor, stage c starts the TaskProcessor thread.
start_consumer ==
    /\ mpc = "init"
    /\ mpc' = "connect"
    /\ wpc' = IF stage = "b"
              THEN [w \in Threads |-> IF w <= ExecutorThreads THEN "idle" ELSE "none"]
              ELSE StartThread("init")
    /\ UNCHANGED <<stage, prefetch_count, pubVars, query, laneVars, regVars, brokerVars, connVars, chanVars, md,
                   tasks_storage, workq, wd, wexc, seqVars>>

\* One successful pass of the loop body up to start_consuming():
\* BlockingConnection, channel, queue_declare, basic_qos, basic_consume.
connect ==
    /\ mpc = "connect"
    /\ connOpen' = TRUE
    /\ callbacks' = <<>>
    /\ mpc' = "consume"
    /\ wpc' = IF stage = "c" THEN StartThread("connect") ELSE wpc
    /\ UNCHANGED <<stage, prefetch_count, pubVars, query, laneVars, regVars, brokerVars, cancelled, chanVars, md, tasks_storage,
                   workq, wd, wexc, seqVars>>

\* A consume loop that ends at the first exception.
AfterExceptionGiveUp == "stopped"

\* start_consumer, `except Exception`: log and time.sleep(5) inside the
\* `while True` loop.
AfterException == "backoff"

\* An attempt to connect fails (BlockingConnection, channel, queue_declare,
\* basic_qos or basic_consume raises): `except Exception`, which logs and
\* sleeps.
connect_failed ==
    /\ mpc = "connect"
    /\ mpc' = AfterException
    /\ UNCHANGED <<stage, prefetch_count, pubVars, query, laneVars, regVars, brokerVars, connVars, chanVars, md,
                   tasks_storage, workq, workerVars, seqVars>>

\* `except Exception`: time.sleep(5) is over; the `while True` loop starts
\* its next pass.
backoff ==
    /\ mpc = "backoff"
    /\ mpc' = "connect"
    /\ UNCHANGED <<stage, prefetch_count, pubVars, query, laneVars, regVars, brokerVars, connVars, chanVars, md,
                   tasks_storage, workq, workerVars, seqVars>>

\* The connection drops.  The broker requeues what was unacknowledged on
\* it, callbacks not yet run are lost, and start_consuming() raises into
\* `except Exception` (log, sleep 5 s).  A stage c on_message that is
\* running finds out at its next channel call.
connection_lost ==
    /\ connOpen
    /\ stage = "c" => mpc # "stopped"
    /\ connOpen' = FALSE
    /\ dlive' = [d \in Deliveries |-> FALSE]
    /\ broker' = Requeue(broker)
    /\ callbacks' = <<>>
    /\ mpc' = IF mpc = "consume" THEN AfterException ELSE mpc
    /\ UNCHANGED <<stage, prefetch_count, pubVars, query, laneVars, regVars, body, ndeliv, dmsg, cancelled, chanVars, md,
                   tasks_storage, workq, workerVars, seqVars>>

\* KeyboardInterrupt in start_consumer: break out of the loop.  Stage b
\* leaves the `with ThreadPoolExecutor` block (shutdown, wait=True); stage c
\* returns, and the process ends with its daemon threads.
cancel ==
    /\ mpc \notin {"init", "stopped"}
    /\ cancelled' = TRUE
    /\ mpc' = "stopped"
    /\ UNCHANGED <<stage, prefetch_count, pubVars, query, laneVars, regVars, brokerVars, connOpen, callbacks, chanVars, md,
                   tasks_storage, workq, workerVars, seqVars>>

\* The owning thread runs the oldest handed-off callback inside
\* start_consuming().
run_callback ==
    /\ stage = "b"
    /\ mpc = "consume"
    /\ connOpen
    /\ callbacks # <<>>
    /\ ChannelOp(Head(callbacks)[1], Head(callbacks)[2], 0)
    /\ callbacks' = Tail(callbacks)
    /\ UNCHANGED <<stage, prefetch_count, pubVars, query, laneVars, regVars, body, ndeliv, dmsg, dlive, connOpen, cancelled,
                   issued, mpc, md, tasks_storage, workq, workerVars, seqVars>>

\* The broker may deliver the oldest ready message m on the open channel
\* (a requeued message returns to its place in the queue).
CanDeliver(m) ==
    /\ mpc = "consume"
    /\ connOpen
    /\ broker[m] = "ready"
    /\ \A k \in Msgs : broker[k] = "ready" => m <= k
    /\ Cardinality(Unacked) < Prefetch
    /\ ndeliv < MaxDeliveries

Delivered(m) ==
    /\ ndeliv' = ndeliv + 1
    /\ dmsg' = [dmsg EXCEPT ![ndeliv + 1] = m]
    /\ dlive' = [dlive EXCEPT ![ndeliv + 1] = TRUE]
    /\ broker' = [broker EXCEPT ![m] = "unacked"]
    /\ UNCHANGED body

\* ===================================================== stage b: worker pool
\* on_message on the owning thread: executor.submit(process_message_wrapper).
b_on_message(m) ==
    /\ stage = "b"
    /\ CanDeliver(m)
    /\ Delivered(m)
    /\ workq' = Append(workq, ndeliv + 1)
    /\ UNCHANGED <<stage, prefetch_count, pubVars, query, laneVars, regVars, connVars, chanVars, mpc, md, tasks_storage,
                   workerVars, seqVars>>

\* A free executor thread (the threads are interchangeable: the lowest
\* numbered free one) takes the oldest work item and runs
\* process_message_wrapper up to the call of process_message: uuid4(),
\* json.loads(body), task record created as pending.
b_wrapper_begin(w) ==
    /\ stage = "b"
    /\ wpc[w] = "idle"
    /\ \A v \in Threads : wpc[v] = "idle" => w <= v
    /\ workq # <<>>
    /\ LET d == Head(workq) IN
        /\ workq' = Tail(workq)
        /\ wd' = [wd EXCEPT ![w] = d]
        /\ IF ~json_loads(body[dmsg[d]])
           THEN /\ wexc' = [wexc EXCEPT ![w] = "JSONDecodeError"]
                /\ wpc' = [wpc EXCEPT ![w] = "except"]
                /\ UNCHANGED tasks_storage
           ELSE /\ tasks_storage' = [tasks_storage EXCEPT ![d] = NewTask("pending")]
                /\ wpc' = [wpc EXCEPT ![w] = "start"]
                /\ UNCHANGED wexc
    /\ UNCHANGED <<stage, prefetch_count, pubVars, query, laneVars, regVars, brokerVars, connVars, chanVars, mpc, md, seqVars>>

\* process_message: status running, started_at.
b_process_message_start(w) ==
    /\ stage = "b"
    /\ wpc[w] = "start"
    /\ tasks_storage' = [tasks_storage EXCEPT ![wd[w]] =
            [@ EXCEPT !.status = "running", !.started_at = Now(@)]]
    /\ wpc' = [wpc EXCEPT ![w] = "load"]
    /\ UNCHANGED <<stage, prefetch_count, pubVars, query, laneVars, regVars, brokerVars, connVars, chanVars, mpc, md, workq, wd,
                   wexc, seqVars>>

\* A handler that stamps started_at again when it marks the task failed.
b_failed_restarted(t, text) ==
    [tasks_storage EXCEPT ![t] =
        [@ EXCEPT !.status = "failed", !.started_at = Now(@),
                  !.completed_at = Now(@), !.error = text]]

\* The `except Exception` handler of process_message.
b_failed(t, text) ==
    [tasks_storage EXCEPT ![t] =
        [@ EXCEPT !.status = "failed", !.completed_at = Now(@), !.error = text]]

\* The early return that leaves the status as it was.
b_no_files_unmarked(t) ==
    [tasks_storage EXCEPT ![t] = [@ EXCEPT !.file_count = 0]]

\* process_message, `if not transformed_data`: completed, completed_at,
\* file_count 0, return.
b_no_files(t) ==
    [tasks_storage EXCEPT ![t] =
        [@ EXCEPT !.status = "completed", !.completed_at = Now(@), !.file_count = 0]]

\* process_message, steps 1-2: load_and_transform_json_files returns no
\* record (completed at once with file_count 0), or some (file_count 1
\* stands for every positive count: the stage never reads it again), or
\* raises.
b_process_message_load(w) ==
    /\ stage = "b"
    /\ wpc[w] = "load"
    /\ \/ /\ tasks_storage' = b_no_files(wd[w])
          /\ wpc' = [wpc EXCEPT ![w] = "ack"]
       \/ /\ tasks_storage' = [tasks_storage EXCEPT ![wd[w]] = [@ EXCEPT !.file_count = 1]]
          /\ wpc' = [wpc EXCEPT ![w] = "ingest"]
       \/ /\ tasks_storage' = b_failed(wd[w], TransformError)
          /\ wpc' = [wpc EXCEPT ![w] = "ack"]
    /\ UNCHANGED <<stage, prefetch_count, pubVars, query, laneVars, regVars, brokerVars, connVars, chanVars, mpc, md, workq, wd,
                   wexc, seqVars>>

\* process_message, steps 3-6: merge_and_save, execute_chunk_and_ingest,
\* unlink, then completed; or one of them raises and the task is failed.
\* (The merged_file field, which only these steps write, is left out.)
b_process_message_ingest(w) ==
    /\ stage = "b"
    /\ wpc[w] = "ingest"
    /\ \/ tasks_storage' = [tasks_storage EXCEPT ![wd[w]] =
                [@ EXCEPT !.status = "completed", !.completed_at = Now(@)]]
       \/ tasks_storage' = b_failed(wd[w], TransformError)
    /\ wpc' = [wpc EXCEPT ![w] = "ack"]
    /\ UNCHANGED <<stage, prefetch_count, pubVars, query, laneVars, regVars, brokerVars, connVars, chanVars, mpc, md, workq, wd,
                   wexc, seqVars>>

\* A wrapper that requeues the message once process_message has returned.
b_wrapper_requeue(w) ==
    /\ stage = "b"
    /\ wpc[w] = "ack"
    /\ issued' = [issued EXCEPT ![wd[w]] = Append(@, "nack")]
    /\ IF ConnectionUsable(wd[w])
       THEN /\ add_callback_threadsafe("nack", wd[w], w)
            /\ wpc' = [wpc EXCEPT ![w] = "idle"]
            /\ wd' = [wd EXCEPT ![w] = 0]
            /\ UNCHANGED wexc
       ELSE /\ wexc' = [wexc EXCEPT ![w] = HandoffError]
            /\ wpc' = [wpc EXCEPT ![w] = "except"]
            /\ UNCHANGED <<wd, callbacks, applied, broker>>
    /\ UNCHANGED <<stage, prefetch_count, pubVars, query, laneVars, regVars, body, ndeliv, dmsg, dlive, connOpen, cancelled,
                   mpc, md, tasks_storage, workq, seqVars>>

\* The wrapper with its nack in a `finally`: after the ack is handed off
\* the nack is handed off too.
b_wrapper_ack_then_nack(w) ==
    /\ stage = "b"
    /\ wpc[w] = "ack"
    /\ issued' = [issued EXCEPT ![wd[w]] = Append(@, "ack")]
    /\ IF ConnectionUsable(wd[w])
       THEN /\ add_callback_threadsafe("ack", wd[w], w)
            /\ wpc' = [wpc EXCEPT ![w] = "nack"]
            /\ UNCHANGED <<wd, wexc>>
       ELSE /\ wexc' = [wexc EXCEPT ![w] = HandoffError]
            /\ wpc' = [wpc EXCEPT ![w] = "except"]
            /\ UNCHANGED <<wd, callbacks, applied, broker>>
    /\ UNCHANGED <<stage, prefetch_count, pubVars, query, laneVars, regVars, body, ndeliv, dmsg, dlive, connOpen, cancelled,
                   mpc, md, tasks_storage, workq, seqVars>>

\* process_message_wrapper after process_message returned: hand the
\* basic_ack to the owning thread; a closed connection raises.
b_wrapper_ack(w) ==
    /\ stage = "b"
    /\ wpc[w] = "ack"
    /\ issued' = [issued EXCEPT ![wd[w]] = Append(@, "ack")]
    /\ IF ConnectionUsable(wd[w])
       THEN /\ add_callback_threadsafe("ack", wd[w], w)
            /\ wpc' = [wpc EXCEPT ![w] = "idle"]
            /\ wd' = [wd EXCEPT ![w] = 0]
            /\ UNCHANGED wexc
       ELSE /\ wexc' = [wexc EXCEPT ![w] = HandoffError]
            /\ wpc' = [wpc EXCEPT ![w] = "except"]
            /\ UNCHANGED <<wd, callbacks, applied, broker>>
    /\ UNCHANGED <<stage, prefetch_count, pubVars, query, laneVars, regVars, body, ndeliv, dmsg, dlive, connOpen, cancelled,
                   mpc, md, tasks_storage, workq, seqVars>>

\* process_message_wrapper, `except Exception`: the task, if it exists, is
\* set failed with completed_at and error = str(e).
b_wrapper_except(w) ==
    /\ stage = "b"
    /\ wpc[w] = "except"
    /\ IF Exists(wd[w])
       THEN tasks_storage' = b_failed(wd[w], wexc[w])
       ELSE UNCHANGED tasks_storage
    /\ wpc' = [wpc EXCEPT ![w] = "nack"]
    /\ UNCHANGED <<stage, prefetch_count, pubVars, query, laneVars, regVars, brokerVars, connVars, chanVars, mpc, md, workq, wd,
                   wexc, seqVars>>

\* process_message_wrapper, end of the handler: hand the
\* basic_nack(requeue=True) to the owning thread; a closed connection raises
\* out of the wrapper into the future.
b_wrapper_nack(w) ==
    /\ stage = "b"
    /\ wpc[w] = "nack"
    /\ issued' = [issued EXCEPT ![wd[w]] = Append(@, "nack")]
    /\ IF ConnectionUsable(wd[w])
       THEN add_callback_threadsafe("nack", wd[w], w)
       ELSE UNCHANGED <<callbacks, applied, broker>>
    /\ wpc' = [wpc EXCEPT ![w] = "idle"]
    /\ wd' = [wd EXCEPT ![w] = 0]
    /\ wexc' = [wexc EXCEPT ![w] = NoText]
    /\ UNCHANGED <<stage, prefetch_count, pubVars, query, laneVars, regVars, body, ndeliv, dmsg, dlive, connOpen, cancelled,
                   mpc, md, tasks_storage, workq, seqVars>>

NextB ==
    \/ \E m \in Msgs : b_on_message(m)
    \/ run_callback
    \/ \E w \in Threads :
        \/ b_wrapper_begin(w)
        \/ b_process_message_start(w)
        \/ b_process_message_load(w)
        \/ b_process_message_ingest(w)
        \/ b_wrapper_ack(w)
        \/ b_wrapper_except(w)
        \/ b_wrapper_nack(w)

\* =================================================== stage c: sequential lane
\* on_message, first part, on the owning thread: json.loads(body), uuid4(),
\* task record created as queued.  A malformed body goes to the handler.
c_on_message(m) ==
    /\ stage = "c"
    /\ CanDeliver(m)
    /\ Delivered(m)
    /\ md' = ndeliv + 1
    /\ IF ~json_loads(body[m])
       THEN /\ mpc' = "om_nack"
            /\ UNCHANGED tasks_storage
       ELSE /\ tasks_storage' = [tasks_storage EXCEPT ![ndeliv + 1] = NewTask("queued")]
            /\ mpc' = "om_put"
    /\ UNCHANGED <<stage, prefetch_count, pubVars, query, laneVars, regVars, connVars, chanVars, workq, workerVars, seqVars>>

\* on_message: analysis_queue.put((task_id, message_data)).
c_on_message_put ==
    /\ stage = "c"
    /\ mpc = "om_put"
    /\ analysis_queue' = queue_put(analysis_queue, md)
    /\ mpc' = "om_ack"
    /\ UNCHANGED <<stage, prefetch_count, pubVars, query, laneVars, regVars, brokerVars, connVars, chanVars, md, tasks_storage,
                   workq, workerVars, current_task_id, cti_files, idx>>

\* on_message: channel.basic_ack(delivery_tag), called by the owning
\* thread; on a closed channel it raises into `except Exception`.
c_on_message_ack ==
    /\ stage = "c"
    /\ mpc = "om_ack"
    /\ issued' = [issued EXCEPT ![md] = Append(@, "ack")]
    /\ IF ConnectionUsable(md)
       THEN /\ ChannelOp("ack", md, 0)
            /\ mpc' = "consume"
            /\ md' = 0
       ELSE /\ mpc' = "om_nack"
            /\ UNCHANGED <<applied, broker, md>>
    /\ UNCHANGED <<stage, prefetch_count, pubVars, query, laneVars, regVars, body, ndeliv, dmsg, dlive, connVars, tasks_storage,
                   workq, workerVars, seqVars>>

\* on_message, `except Exception`: channel.basic_nack(requeue=True); on a
\* closed channel it raises out of on_message and start_consuming() into
\* start_consumer's `except Exception`.
c_on_message_nack ==
    /\ stage = "c"
    /\ mpc = "om_nack"
    /\ issued' = [issued EXCEPT ![md] = Append(@, "nack")]
    /\ IF ConnectionUsable(md)
       THEN /\ ChannelOp("nack", md, 0)
            /\ mpc' = "consume"
       ELSE /\ mpc' = AfterException
            /\ UNCHANGED <<applied, broker>>
    /\ md' = 0
    /\ UNCHANGED <<stage, prefetch_count, pubVars, query, laneVars, regVars, body, ndeliv, dmsg, dlive, connVars, tasks_storage,
                   workq, workerVars, seqVars>>

\* The process is alive: once start_consumer has returned, main() returns
\* and the daemon TaskProcessor thread ends with the process.
Alive == mpc # "stopped"

\* A worker that reads the oldest entry and leaves it in the queue.
c_worker_get_peek(w) ==
    /\ stage = "c"
    /\ Alive
    /\ wpc[w] = "get"
    /\ analysis_queue # <<>>
    /\ wd' = [wd EXCEPT ![w] = Head(analysis_queue)]
    /\ wpc' = [wpc EXCEPT ![w] = "begin"]
    /\ UNCHANGED <<stage, prefetch_count, pubVars, query, laneVars, regVars, brokerVars, connVars, chanVars, mpc, md,
                   tasks_storage, workq, wexc, seqVars>>

\* task_processor_worker: analysis_queue.get(block=True).
c_worker_get(w) ==
    /\ stage = "c"
    /\ Alive
    /\ wpc[w] = "get"
    /\ analysis_queue # <<>>
    /\ wd' = [wd EXCEPT ![w] = Head(analysis_queue)]
    /\ analysis_queue' = Tail(analysis_queue)
    /\ wpc' = [wpc EXCEPT ![w] = "begin"]
    /\ UNCHANGED <<stage, prefetch_count, pubVars, query, laneVars, regVars, brokerVars, connVars, chanVars, mpc, md,
                   tasks_storage, workq, wexc, current_task_id, cti_files, idx>>

\* A process_analysis_task that goes on without writing current_task_id.
c_process_begin_unset(w) ==
    /\ stage = "c"
    /\ Alive
    /\ wpc[w] = "begin"
    /\ wpc' = [wpc EXCEPT ![w] = "mark"]
    /\ UNCHANGED <<stage, prefetch_count, pubVars, query, laneVars, regVars, brokerVars, connVars, chanVars, mpc, md,
                   tasks_storage, workq, wd, wexc, seqVars>>

\* process_analysis_task: current_task_id = task_id.
c_process_begin(w) ==
    /\ stage = "c"
    /\ Alive
    /\ wpc[w] = "begin"
    /\ current_task_id' = wd[w]
    /\ wpc' = [wpc EXCEPT ![w] = "mark"]
    /\ UNCHANGED <<stage, prefetch_count, pubVars, query, laneVars, regVars, brokerVars, connVars, chanVars, mpc, md,
                   tasks_storage, workq, wd, wexc, analysis_queue, cti_files, idx>>

\* process_analysis_task: status processing, started_at.
c_process_mark(w) ==
    /\ stage = "c"
    /\ Alive
    /\ wpc[w] = "mark"
    /\ tasks_storage' = [tasks_storage EXCEPT ![wd[w]] =
            [@ EXCEPT !.status = "processing", !.started_at = Now(@)]]
    /\ wpc' = [wpc EXCEPT ![w] = "find"]
    /\ UNCHANGED <<stage, prefetch_count, pubVars, query, laneVars, regVars, brokerVars, connVars, chanVars, mpc, md, workq, wd,
                   wexc, seqVars>>

\* A handler that also drops the artifacts recorded so far.
c_failed_forgetful(t, text) ==
    [tasks_storage EXCEPT ![t] =
        [@ EXCEPT !.status = "failed", !.completed_at = Now(@), !.error = text,
                  !.processed_files = <<>>]]

\* A handler that removes the failed task from the registry.
c_failed_evicting(t, text) == [tasks_storage EXCEPT ![t] = NoTask]

\* The `except Exception` handler of process_analysis_task.
c_failed(t, text) ==
    [tasks_storage EXCEPT ![t] =
        [@ EXCEPT !.status = "failed", !.completed_at = Now(@), !.error = text]]

\* The early return that records the count and leaves the status.
c_no_files_unmarked(t) ==
    [tasks_storage EXCEPT ![t] = [@ EXCEPT !.file_count = 0]]

\* process_analysis_task, `if not cti_files`: completed, completed_at,
\* file_count 0, return.
c_no_files(t) ==
    [tasks_storage EXCEPT ![t] =
        [@ EXCEPT !.status = "completed", !.completed_at = Now(@), !.file_count = 0]]

\* process_analysis_task, step 1: find_cti_files returns n artifacts, at
\* most `most` (n = 0: completed at once with file_count 0), or raises.
c_process_find(w, most) ==
    /\ stage = "c"
    /\ Alive
    /\ wpc[w] = "find"
    /\ \/ /\ tasks_storage' = c_no_files(wd[w])
          /\ wpc' = [wpc EXCEPT ![w] = "finally"]
          /\ UNCHANGED <<cti_files, idx>>
       \/ /\ \E n \in 1..most :
                /\ tasks_storage' = [tasks_storage EXCEPT ![wd[w]] =
                        [@ EXCEPT !.file_count = n, !.processed_files = <<>>]]
                /\ cti_files' = [cti_files EXCEPT ![w] = n]
          /\ idx' = [idx EXCEPT ![w] = 1]
          /\ wpc' = [wpc EXCEPT ![w] = "artifact"]
       \/ /\ tasks_storage' = c_failed(wd[w], StagingError)
          /\ wpc' = [wpc EXCEPT ![w] = "finally"]
          /\ UNCHANGED <<cti_files, idx>>
    /\ UNCHANGED <<stage, prefetch_count, pubVars, query, laneVars, regVars, brokerVars, connVars, chanVars, mpc, md, workq, wd,
                   wexc, analysis_queue, current_task_id>>

\* End of one pass of `for idx, cti_file in enumerate(cti_files, 1)`:
\* the next artifact, or the code after the loop.
AfterArtifact(w) ==
    IF idx[w] < cti_files[w]
    THEN /\ idx' = [idx EXCEPT ![w] = idx[w] + 1]
         /\ wpc' = [wpc EXCEPT ![w] = "artifact"]
    ELSE /\ idx' = idx
         /\ wpc' = [wpc EXCEPT ![w] = "complete"]

\* Steps 2a and 2b for one artifact: copy_and_add_id stages it, or raises
\* (unreadable or non-JSON file), which fails the task; then
\* call_agent_c_analyze returns a remote task id (the task waits for
\* agent_c) or None (the artifact is skipped).
c_process_artifact(w) ==
    /\ stage = "c"
    /\ Alive
    /\ wpc[w] = "artifact"
    /\ \/ /\ tasks_storage' = c_failed(wd[w], StagingError)
          /\ wpc' = [wpc EXCEPT ![w] = "finally"]
          /\ UNCHANGED idx
       \/ /\ tasks_storage' = [tasks_storage EXCEPT ![wd[w]] =
                [@ EXCEPT !.agent_c_task_id = "remote", !.status = "waiting_for_agent_c"]]
          /\ wpc' = [wpc EXCEPT ![w] = "wait"]
          /\ UNCHANGED idx
       \/ /\ AfterArtifact(w)
          /\ UNCHANGED tasks_storage
    /\ UNCHANGED <<stage, prefetch_count, pubVars, query, laneVars, regVars, brokerVars, connVars, chanVars, mpc, md, workq, wd,
                   wexc, analysis_queue, current_task_id, cti_files>>

\* Step 2c in one step: wait_for_agent_c_task returns True (artifact
\* recorded, status back to processing) or False (failed, not_found,
\* timeout).
c_process_wait(w) ==
    /\ stage = "c"
    /\ Alive
    /\ wpc[w] = "wait"
    /\ \/ tasks_storage' = [tasks_storage EXCEPT ![wd[w]] =
                [@ EXCEPT !.processed_files = Append(@, idx[w]), !.status = "processing"]]
       \/ UNCHANGED tasks_storage
    /\ AfterArtifact(w)
    /\ UNCHANGED <<stage, prefetch_count, pubVars, query, laneVars, regVars, brokerVars, connVars, chanVars, mpc, md, workq, wd,
                   wexc, analysis_queue, current_task_id, cti_files>>

\* After the loop: status completed, completed_at.
c_process_complete(w) ==
    /\ stage = "c"
    /\ Alive
    /\ wpc[w] = "complete"
    /\ tasks_storage' = [tasks_storage EXCEPT ![wd[w]] =
            [@ EXCEPT !.status = "completed", !.completed_at = Now(@)]]
    /\ wpc' = [wpc EXCEPT ![w] = "finally"]
    /\ UNCHANGED <<stage, prefetch_count, pubVars, query, laneVars, regVars, brokerVars, connVars, chanVars, mpc, md, workq, wd,
                   wexc, seqVars>>

\* `finally`: current_task_id = None; then analysis_queue.task_done() and
\* the worker loops to get().
c_process_finally(w) ==
    /\ stage = "c"
    /\ Alive
    /\ wpc[w] = "finally"
    /\ current_task_id' = 0
    /\ wpc' = [wpc EXCEPT ![w] = "get"]
    /\ wd' = [wd EXCEPT ![w] = 0]
    /\ cti_files' = [cti_files EXCEPT ![w] = 0]
    /\ idx' = [idx EXCEPT ![w] = 0]
    /\ elapsed' = 0
    /\ outcome' = <<>>
    /\ UNCHANGED <<stage, prefetch_count, pubVars, query, regVars, requests, success, brokerVars, connVars, chanVars, mpc, md,
                   tasks_storage, workq, wexc, analysis_queue>>

NextC ==
    \/ \E m \in Msgs : c_on_message(m)
    \/ c_on_message_put
    \/ c_on_message_ack
    \/ c_on_message_nack
    \/ \E w \in Threads :
        \/ c_worker_get(w)
        \/ c_process_begin(w)
        \/ c_process_mark(w)
        \/ c_process_find(w, MaxFiles)
        \/ c_process_artifact(w)
        \/ c_process_wait(w)
        \/ c_process_complete(w)
        \/ c_process_finally(w)

Next ==
    \/ start_consumer
    \/ connect
    \/ connect_failed
    \/ backoff
    \/ connection_lost
    \/ cancel
    \/ NextB
    \/ NextC

Spec == Init /\ [][Next]_vars

\* The thread that runs start_consumer, alone with the broker: the worker
\* threads never write the position of the consume loop, the connection or
\* the cancellation.  The broker is reachable again and again (an attempt
\* to connect that is repeated for ever succeeds at some point) and the
\* backoff sleep ends.
NextConsumer ==
    \/ start_consumer
    \/ connect
    \/ connect_failed
    \/ backoff
    \/ connection_lost
    \/ cancel
    \/ \E m \in Msgs : b_on_message(m)
    \/ \E m \in Msgs : c_on_message(m)
    \/ c_on_message_put
    \/ c_on_message_ack
    \/ c_on_message_nack

SpecConsumer ==
    /\ Init
    /\ [][NextConsumer]_vars
    /\ SF_vars(connect)
    /\ WF_vars(backoff)

\* ============================ the sequential lane's worker, statement by
\* statement: the TaskProcessor thread alone, draining tasks that on_message
\* has created, queued and acknowledged, with the artifact loop of
\* process_analysis_task and the polling loop of wait_for_agent_c_task
\* opened up.
consumerVars == <<stage, prefetch_count, brokerVars, connVars, chanVars, mpc, md, workq, wexc,
                  analysis_queue, current_task_id>>

\* Answers of GET /tasks/{id}: the five statuses of the remote service, any
\* other status string ("unknown"), and a request that raises (network
\* failure, non-2xx, body that is not JSON: "error").
Responses == {"completed", "failed", "not_found", "pending", "running",
              "unknown", "error"}

\* The state on_message leaves behind after n well-formed messages were
\* received one after the other on an open connection and acknowledged,
\* the worker not having taken any yet.
Received(n) ==
    /\ body = [m \in Msgs |-> "json"]
    /\ broker = [m \in Msgs |-> IF m <= n THEN "acked" ELSE "ready"]
    /\ ndeliv = n
    /\ dmsg = [d \in Deliveries |-> IF d <= n THEN d ELSE 0]
    /\ dlive = [d \in Deliveries |-> d <= n]
    /\ issued = [d \in Deliveries |-> IF d <= n THEN <<"ack">> ELSE <<>>]
    /\ applied = [d \in Deliveries |->
            IF d <= n THEN <<[op |-> "ack", thread |-> 0, live |-> TRUE]>> ELSE <<>>]
    /\ tasks_storage = [d \in Deliveries |-> IF d <= n THEN NewTask("queued") ELSE NoTask]
    /\ analysis_queue = [i \in 1..n |-> i]

InitLane ==
    /\ stage = "c"
    /\ \E n \in Deliveries \cap Msgs : Received(n)
    /\ connOpen = TRUE
    /\ callbacks = <<>>
    /\ mpc = "consume"
    /\ cancelled = FALSE
    /\ md = 0
    /\ workq = <<>>
    /\ wpc = [w \in Threads |-> IF w = 1 THEN "get" ELSE "none"]
    /\ wd = [w \in Threads |-> 0]
    /\ wexc = [w \in Threads |-> NoText]
    /\ current_task_id = 0
    /\ cti_files = [w \in Threads |-> 0]
    /\ idx = [w \in Threads |-> 0]
    /\ requests = {}
    /\ elapsed = 0
    /\ success = "none"
    /\ outcome = <<>>
    /\ NoPublisher
    /\ prefetch_count = 0
    /\ NoRequest

\* The artifact in hand ends with `how`.
Ended(how) == Append(outcome, how)

\* Step 2a: copy_and_add_id stages the artifact, or raises (unreadable or
\* non-JSON file, full disk) into the task's `except Exception`.
copy_and_add_id(w) ==
    /\ stage = "c"
    /\ Alive
    /\ wpc[w] = "artifact"
    /\ \/ /\ tasks_storage' = c_failed(wd[w], StagingError)
          /\ wpc' = [wpc EXCEPT ![w] = "finally"]
       \/ /\ wpc' = [wpc EXCEPT ![w] = "submit"]
          /\ UNCHANGED tasks_storage
    /\ UNCHANGED <<consumerVars, pubVars, query, regVars, laneVars, wd, cti_files, idx>>

\* A submission whose failure is not caught: the exception of requests.post
\* reaches the `except Exception` of process_analysis_task.
call_agent_c_analyze_raising(w) ==
    /\ stage = "c"
    /\ Alive
    /\ wpc[w] = "submit"
    /\ requests' = requests \cup {<<wd[w], "submit">>}
    /\ \/ /\ tasks_storage' = [tasks_storage EXCEPT ![wd[w]] =
                [@ EXCEPT !.agent_c_task_id = "remote", !.status = "waiting_for_agent_c"]]
          /\ elapsed' = 0
          /\ wpc' = [wpc EXCEPT ![w] = "check"]
          /\ UNCHANGED <<idx, outcome>>
       \/ /\ outcome' = Ended("rejected")
          /\ tasks_storage' = c_failed(wd[w], StagingError)
          /\ wpc' = [wpc EXCEPT ![w] = "finally"]
          /\ UNCHANGED <<idx, elapsed>>
    /\ UNCHANGED <<consumerVars, pubVars, query, regVars, success, wd, cti_files>>

\* Step 2b: call_agent_c_analyze posts the artifact.  A task id comes back:
\* agent_c_task_id, status waiting_for_agent_c, and wait_for_agent_c_task
\* starts its clock.  None comes back (the request raised, or the answer
\* held no task_id): `continue`.
call_agent_c_analyze(w) ==
    /\ stage = "c"
    /\ Alive
    /\ wpc[w] = "submit"
    /\ requests' = requests \cup {<<wd[w], "submit">>}
    /\ \/ /\ tasks_storage' = [tasks_storage EXCEPT ![wd[w]] =
                [@ EXCEPT !.agent_c_task_id = "remote", !.status = "waiting_for_agent_c"]]
          /\ elapsed' = 0
          /\ wpc' = [wpc EXCEPT ![w] = "check"]
          /\ UNCHANGED <<idx, outcome>>
       \/ /\ outcome' = Ended("rejected")
          /\ AfterArtifact(w)
          /\ UNCHANGED <<tasks_storage, elapsed>>
    /\ UNCHANGED <<consumerVars, pubVars, query, regVars, success, wd, cti_files>>

\* A wait that stops polling only when the remote service answers.
timed_out_never(t) == FALSE

\* wait_for_agent_c_task: `elapsed > timeout`.
timed_out(t) == t > timeout

\* wait_for_agent_c_task, top of the loop: past the timeout it returns
\* False, otherwise it goes on to poll.
wait_for_agent_c_task_check(w) ==
    /\ stage = "c"
    /\ Alive
    /\ wpc[w] = "check"
    /\ IF timed_out(elapsed)
       THEN /\ success' = "False"
            /\ outcome' = Ended("timeout")
            /\ wpc' = [wpc EXCEPT ![w] = "record"]
       ELSE /\ wpc' = [wpc EXCEPT ![w] = "poll"]
            /\ UNCHANGED <<success, outcome>>
    /\ UNCHANGED <<consumerVars, pubVars, query, regVars, requests, elapsed, tasks_storage, wd, cti_files, idx>>

\* A poller that takes not_found for the end of the remote task.
PollResultLost(r) ==
    CASE r \in {"completed", "not_found"} -> "True"
      [] r = "failed" -> "False"
      [] OTHER -> "none"

\* What wait_for_agent_c_task returns on answer r ("none": it polls again).
PollResult(r) ==
    CASE r = "completed" -> "True"
      [] r \in {"failed", "not_found"} -> "False"
      [] OTHER -> "none"

\* wait_for_agent_c_task, rest of the loop body: requests.get, then return
\* True (completed), return False (failed, not_found), or sleep
\* poll_interval and loop (pending, running, any other status, any
\* exception).  The request itself takes up to MaxLatency.
wait_for_agent_c_task_poll(w) ==
    /\ stage = "c"
    /\ Alive
    /\ wpc[w] = "poll"
    /\ requests' = requests \cup {<<wd[w], "poll">>}
    /\ \E r \in Responses :
        IF PollResult(r) # "none"
        THEN /\ success' = PollResult(r)
             /\ outcome' = Ended(r)
             /\ wpc' = [wpc EXCEPT ![w] = "record"]
             /\ UNCHANGED elapsed
        ELSE /\ \E latency \in 0..MaxLatency :
                    elapsed' = elapsed + latency + poll_interval
             /\ wpc' = [wpc EXCEPT ![w] = "check"]
             /\ UNCHANGED <<success, outcome>>
    /\ UNCHANGED <<consumerVars, pubVars, query, regVars, tasks_storage, wd, cti_files, idx>>

\* A lane that records every artifact it has waited for.
recorded_always(result) == TRUE

\* process_analysis_task, `if success:`.
recorded(result) == result = "True"

\* Step 2c after the wait returned: on success the artifact's name is
\* appended to processed_files and the status goes back to processing;
\* otherwise only a log line.  Then the next artifact.
c_process_record(w) ==
    /\ stage = "c"
    /\ Alive
    /\ wpc[w] = "record"
    /\ IF recorded(success)
       THEN tasks_storage' = [tasks_storage EXCEPT ![wd[w]] =
                [@ EXCEPT !.processed_files = Append(@, idx[w]), !.status = "processing"]]
       ELSE UNCHANGED tasks_storage
    /\ success' = "none"
    /\ AfterArtifact(w)
    /\ UNCHANGED <<consumerVars, pubVars, query, regVars, requests, elapsed, outcome, wd, cti_files>>

NextLane ==
    \E w \in Threads :
        \/ c_worker_get(w)
        \/ c_process_begin(w)
        \/ c_process_mark(w)
        \/ c_process_find(w, MaxArtifacts)
        \/ copy_and_add_id(w)
        \/ call_agent_c_analyze(w)
        \/ wait_for_agent_c_task_check(w)
        \/ wait_for_agent_c_task_poll(w)
        \/ c_process_record(w)
        \/ c_process_complete(w)
        \/ c_process_finally(w)

SpecLane == InitLane /\ [][NextLane]_vars

\* ================================================================ claims
Range(q) == {q[i] : i \in DOMAIN q}
IssuedOps(d) == Range(issued[d])
AppliedOps(d) == {applied[d][i].op : i \in DOMAIN applied[d]}
Made(d) == dmsg[d] # 0
Malformed(d) == Made(d) /\ body[dmsg[d]] = "malformed"
Status(t) == tasks_storage[t].status

\* Stage b: process_message_wrapper has returned (or raised) for delivery d.
WrapperDone(d) ==
    /\ stage = "b"
    /\ Made(d)
    /\ d \notin Range(workq)
    /\ \A w \in Threads : wd[w] # d

\* A callback for delivery d waits in the connection's hand-off queue.
Pending(d) == \E i \in DOMAIN callbacks : callbacks[i][2] = d

\* on_message (stage c) or the wrapper (stage b) is through with delivery d.
Handled(d) == IF stage = "b" THEN WrapperDone(d) ELSE Made(d) /\ md # d

RunningTasks == {t \in Deliveries : Exists(t) /\ Status(t) = "running"}
ActiveTasks == {t \in Deliveries : Exists(t) /\ Status(t) \in Active}

\* C1: sequential lane: of two tasks, the one whose message was received
\* first (the lower task id) is in a terminal status before the other one's
\* started_at is set; tasks are started in the order of receipt.
C1_SequentialFifo ==
    stage = "c" =>
        \A t1, t2 \in Deliveries :
            (t1 < t2 /\ Exists(t1) /\ Exists(t2)
                /\ tasks_storage[t2].started_at # NoTime)
            => Status(t1) \in Terminal

C1_Witness ==
    /\ stage = "c"
    /\ \E t1, t2 \in Deliveries :
        /\ t1 < t2 /\ Exists(t1) /\ Exists(t2)
        /\ tasks_storage[t2].started_at # NoTime
        /\ Status(t1) \in Terminal

\* C2: sequential lane: at most one task is processing or
\* waiting_for_agent_c, also after connection failures and reconnections,
\* which never start a second TaskProcessor thread.
C2_OneActive ==
    stage = "c" =>
        /\ Cardinality(ActiveTasks) <= 1
        /\ Cardinality({w \in Threads : wpc[w] # "none"}) <= 1

C2_Witness ==
    /\ stage = "c"
    /\ connOpen /\ \E d \in Deliveries : Made(d) /\ ~dlive[d]
    /\ ActiveTasks # {}
    /\ analysis_queue # <<>>

\* C3: worker pool: at most max_workers tasks are running, also after a
\* reconnection while earlier messages are still being processed.
C3_RunningBounded == stage = "b" => Cardinality(RunningTasks) <= max_workers

C3_Witness ==
    /\ stage = "b"
    /\ connOpen /\ \E d \in RunningTasks : ~dlive[d]
    /\ Cardinality(RunningTasks) = max_workers
    /\ workq # <<>>

\* C4 as claimed: worker pool: every delivery the wrapper is through with,
\* and for which no callback is waiting, had exactly one ack or nack
\* applied on the channel, also when the connection was lost or the
\* consumer cancelled meanwhile.
C4_ExactlyOneDecision ==
    \A d \in Deliveries :
        (WrapperDone(d) /\ ~Pending(d)) => Len(applied[d]) = 1

\* C4 as amended: at most one ack or nack is ever applied for a delivery,
\* and exactly one once the wrapper is through and the callback has run,
\* provided the connection the delivery arrived on is still open.
C4_AtMostOneDecision ==
    stage = "b" =>
        \A d \in Deliveries :
            /\ Len(applied[d]) <= 1
            /\ (WrapperDone(d) /\ ~Pending(d) /\ ConnectionUsable(d))
                => Len(applied[d]) = 1

C4_Witness ==
    /\ stage = "b"
    /\ \E d, e \in Deliveries :
        /\ WrapperDone(d) /\ ConnectionUsable(d) /\ Len(applied[d]) = 1
        /\ WrapperDone(e) /\ ~ConnectionUsable(e) /\ Len(applied[e]) = 0

\* C5: worker pool: an ack is handed off, and applied, only when the task
\* of the message is completed or failed, never while pending or running.
C5_AckAfterTerminal ==
    stage = "b" =>
        \A d \in Deliveries :
            ("ack" \in IssuedOps(d) \cup AppliedOps(d))
            => (Exists(d) /\ Status(d) \in Terminal)

C5_Witness ==
    /\ stage = "b"
    /\ \E d \in Deliveries :
        /\ AppliedOps(d) = {"ack"}
        /\ Exists(d) /\ Status(d) = "completed"

\* C6 as claimed: worker pool: once the transform has raised and
\* process_message has recorded it (failed, completed_at, error = the
\* exception text), the record keeps that status and that error text, and
\* no nack is applied for the message.
C6_TransformFailure ==
    [][\A d \in Deliveries :
        (stage = "b" /\ Exists(d) /\ Status(d) = "failed"
            /\ tasks_storage[d].error = TransformError)
        => /\ tasks_storage'[d].status = "failed"
           /\ tasks_storage'[d].completed_at # NoTime
           /\ tasks_storage'[d].error = TransformError
           /\ \A i \in DOMAIN applied'[d] : applied'[d][i].op # "nack"]_vars

\* C7: both stages: a delivery with a malformed body never has a task
\* record, never has an entry in the internal queue, is never acked, and
\* once handled had exactly basic_nack(requeue=True) issued for it.
C7_MalformedRejected ==
    \A d \in Deliveries :
        Malformed(d) =>
            /\ ~Exists(d)
            /\ d \notin Range(analysis_queue)
            /\ "ack" \notin IssuedOps(d) \cup AppliedOps(d)
            /\ Handled(d) => issued[d] = <<"nack">>

C7_Witness ==
    /\ stage = "c"
    /\ \E d, e \in Deliveries :
        /\ Malformed(d) /\ Handled(d)
        /\ AppliedOps(d) = {"nack"}
        /\ broker[dmsg[d]] = "ready"
        /\ Exists(e)

\* C8 as claimed: both stages: completed_at is set exactly when the status
\* is terminal, and once set it is never written again.
C8_CompletedAtOnce ==
    /\ [](\A t \in Deliveries :
            Exists(t) =>
                (tasks_storage[t].completed_at # NoTime <=> Status(t) \in Terminal))
    /\ [][\A t \in Deliveries :
            (Exists(t) /\ tasks_storage[t].completed_at # NoTime)
            => tasks_storage'[t].completed_at = tasks_storage[t].completed_at]_vars

\* C9 as claimed: both stages: a task that is completed or failed keeps
\* that status whatever happens later.
C9_TerminalIsFinal ==
    [][\A t \in Deliveries :
        (Exists(t) /\ Status(t) \in Terminal)
        => tasks_storage'[t].status = Status(t)]_vars

\* C10: every basic_ack and basic_nack is executed by the thread that owns
\* the connection (thread 0), never by a pool worker or the TaskProcessor.
C10_OwnerThreadOnly ==
    \A d \in Deliveries :
        \A i \in DOMAIN applied[d] : applied[d][i].thread = 0

C10_Witness ==
    /\ stage = "b"
    /\ \E d \in Deliveries :
        /\ WrapperDone(d)
        /\ issued[d] = <<"ack">>
        /\ Len(applied[d]) = 1

\* ------------------------------------------------- the lane's worker
FileCount(t) == tasks_storage[t].file_count
Requests(t) == {k \in {"submit", "poll"} : <<t, k>> \in requests}
ProcessedFiles(t) == tasks_storage[t].processed_files

\* The threads with a task in hand (the TaskProcessor, between get() and
\* the end of `finally`).
Holding == {w \in Threads : wd[w] # 0}

\* The worker has left the `try` of process_analysis_task for the task in
\* hand: the record holds what the task ended with.
Finishing(w) == wpc[w] = "finally"

\* The artifacts among the first n whose poll was answered "completed", in
\* discovery order.
RECURSIVE Succeeded(_, _)
Succeeded(o, n) ==
    IF n = 0 THEN <<>>
    ELSE IF o[n] = "completed" THEN Append(Succeeded(o, n - 1), n)
    ELSE Succeeded(o, n - 1)

\* C11: sequential lane: a task whose scan found no artifact is completed,
\* with file_count 0 and completed_at set, in the step that records the
\* count, and no submit and no poll request is ever sent for it.
C11_NoArtifacts ==
    \A t \in Deliveries :
        (Exists(t) /\ FileCount(t) = 0)
        => /\ Status(t) = "completed"
           /\ tasks_storage[t].completed_at # NoTime
           /\ ProcessedFiles(t) = NoFiles
           /\ Requests(t) = {}

C11_Witness ==
    \E t, u \in Deliveries :
        /\ Exists(t) /\ FileCount(t) = 0 /\ Status(t) = "completed"
        /\ Requests(t) = {}
        /\ Exists(u) /\ Requests(u) = {"submit", "poll"}

\* C12: sequential lane: when a task with N > 0 discovered artifacts ends
\* completed, every artifact has been attempted and processed_files is the
\* sequence, in discovery order, of the artifacts whose submission was
\* accepted and whose poll was answered "completed"; if that is all N,
\* processed_files has length N.
C12_ProcessedFiles ==
    \A w \in Holding :
        (Finishing(w) /\ Status(wd[w]) = "completed" /\ FileCount(wd[w]) > 0)
        => /\ Len(outcome) = FileCount(wd[w])
           /\ ProcessedFiles(wd[w]) = Succeeded(outcome, FileCount(wd[w]))
           /\ (\A i \in DOMAIN outcome : outcome[i] = "completed")
                => Len(ProcessedFiles(wd[w])) = FileCount(wd[w])

C12_Witness ==
    \E w \in Holding :
        /\ Finishing(w) /\ Status(wd[w]) = "completed"
        /\ outcome = <<"rejected", "completed">>
        /\ ProcessedFiles(wd[w]) = <<2>>
        /\ \E t \in Deliveries :
            /\ t # wd[w] /\ Exists(t) /\ FileCount(t) = 2
            /\ ProcessedFiles(t) = <<1, 2>>

\* C13: sequential lane: an artifact whose poll was answered not_found is
\* not in processed_files; the answer does not end the batch, which goes on
\* to the artifacts after it (only a staging exception stops it), and a
\* task whose artifacts were all attempted ends completed.
C13_NotFoundSkipped ==
    \A w \in Holding : \A i \in DOMAIN outcome :
        outcome[i] = "not_found"
        => /\ i \notin Range(ProcessedFiles(wd[w]))
           /\ Status(wd[w]) = "failed" => tasks_storage[wd[w]].error = StagingError
           /\ Finishing(w) =>
                \/ /\ Len(outcome) = FileCount(wd[w])
                   /\ Status(wd[w]) = "completed"
                \/ /\ Len(outcome) < FileCount(wd[w])
                   /\ Status(wd[w]) = "failed"

C13_Witness ==
    \E w \in Holding :
        /\ Finishing(w) /\ Status(wd[w]) = "completed"
        /\ outcome = <<"not_found", "completed">>
        /\ ProcessedFiles(wd[w]) = <<2>>

\* C14: remote poller: a check made once elapsed exceeds the timeout ends
\* the wait with False: no further status request, no exception, nothing
\* written to the registry; the caller then leaves the artifact out of
\* processed_files and goes on to the next artifact or to completion.
C14_TimeoutFails ==
    /\ [](\A w \in Holding : \A i \in DOMAIN outcome :
            outcome[i] = "timeout" => i \notin Range(ProcessedFiles(wd[w])))
    /\ [][\A w \in Holding :
            /\ (wpc[w] = "check" /\ elapsed > timeout)
                => /\ wpc'[w] = "record"
                   /\ success' = "False"
                   /\ requests' = requests
                   /\ tasks_storage' = tasks_storage
            /\ (wpc[w] = "record" /\ outcome[idx[w]] = "timeout")
                => /\ tasks_storage' = tasks_storage
                   /\ wpc'[w] = IF idx[w] < cti_files[w] THEN "artifact" ELSE "complete"]_vars

C14_Witness ==
    \E w \in Holding :
        /\ Finishing(w) /\ Status(wd[w]) = "completed"
        /\ outcome = <<"timeout", "completed">>
        /\ ProcessedFiles(wd[w]) = <<2>>

\* ------------------------------------------------ the lane's on_message
\* Number of entries of the internal queue that carry task t.
Entries(t) == Cardinality({i \in DOMAIN analysis_queue : analysis_queue[i] = t})

\* Task t has been put on the internal queue: it is there, or the worker
\* took it (and holds it or has finished with it).
Enqueued(t) ==
    \/ Entries(t) > 0
    \/ \E w \in Threads : wd[w] = t
    \/ Status(t) # "queued"

\* C15: sequential lane: for every delivery of a well-formed message,
\* on_message creates one task as queued, then puts one entry for it on the
\* internal queue, then calls basic_ack; the ack is called for every such
\* delivery whatever state the task is in by then, and it is applied when
\* the connection is still open.
C15_CreateQueueAck ==
    stage = "c" =>
        \A d \in Deliveries :
            (Made(d) /\ ~Malformed(d)) =>
                /\ Exists(d)
                /\ Entries(d) <= 1
                /\ Entries(d) = 1 =>
                    (Status(d) = "queued" /\ \A w \in Threads : wd[w] # d)
                /\ (md = d /\ mpc = "om_put") => (~Enqueued(d) /\ issued[d] = <<>>)
                /\ issued[d] # <<>> => (Enqueued(d) /\ issued[d][1] = "ack")
                /\ Handled(d) => (issued[d] # <<>> /\ "nack" \notin AppliedOps(d))
                /\ (Handled(d) /\ ConnectionUsable(d)) => AppliedOps(d) = {"ack"}

C15_Witness ==
    /\ stage = "c"
    /\ \E d, e \in Deliveries :
        /\ Handled(d) /\ AppliedOps(d) = {"ack"} /\ Status(d) = "queued"
        /\ Handled(e) /\ AppliedOps(e) = {"ack"} /\ Status(e) = "failed"

\* ------------------------------------------------ the connection manager
\* The consume loop is at or on its way to a new connection attempt.
Reconnecting == mpc \in {"backoff", "connect"}

\* C16: both stages: an exception in the consume loop (failed connect, lost
\* connection, exception out of the callback) is followed by the backoff
\* sleep and then a new attempt to connect, any number of times;
\* start_consumer is left only by cancellation; and with a broker that is
\* reachable again, consuming resumes (unless cancelled first).
C16_RetryForever ==
    /\ [](mpc = "stopped" => cancelled)
    /\ [][/\ (connOpen /\ ~connOpen' /\ mpc = "consume") => mpc' = "backoff"
          /\ (mpc = "connect" /\ mpc' # mpc) => mpc' \in {"consume", "backoff", "stopped"}
          /\ (mpc = "om_nack" /\ mpc' # mpc) => mpc' \in {"consume", "backoff", "stopped"}
          /\ (mpc = "backoff" /\ mpc' # mpc) => mpc' \in {"connect", "stopped"}]_vars
    /\ [](Reconnecting => <>(mpc \in {"consume", "stopped"}))

C16_Witness ==
    /\ mpc = "consume"
    /\ connOpen
    /\ ~cancelled
    /\ \E d \in Deliveries : Made(d) /\ ~dlive[d]

\* The process has exited: start_consumer has returned (stage b: after the
\* `with ThreadPoolExecutor` block has waited for the pool) and main() with
\* it; daemon threads end there.
Exited ==
    /\ mpc = "stopped"
    /\ stage = "b" => (workq = <<>> /\ \A w \in Threads : wpc[w] \in {"idle", "none"})

\* C17 as claimed: both stages: when the process exits after a
\* cancellation, every well-formed message that was delivered on the
\* connection still open has its task in a terminal status and has been
\* acknowledged.
C17_InFlightFinishes ==
    Exited =>
        \A d \in Deliveries :
            (Made(d) /\ ~Malformed(d) /\ ConnectionUsable(d))
            => /\ Exists(d)
               /\ Status(d) \in Terminal
               /\ AppliedOps(d) = {"ack"}

\* ======================================================== task registry
\* The registry under its lock, statement by statement.  Three kinds of
\* thread touch tasks_storage: the start_consumer thread (stage c creates the
\* record in on_message), the worker threads (stage b: pool threads running
\* process_message_wrapper; stage c: TaskProcessor), and the API thread
\* serving GET /tasks and GET /tasks/{task_id}.  CPython may switch threads
\* between any two statements, inside a `with tasks_lock` body too.

\* Position and task of a writer thread.
at(a) == IF a = MainThread THEN mpc ELSE wpc[a]
InHand(a) == IF a = MainThread THEN md ELSE wd[a]

Goto(a, l) ==
    IF a = MainThread
    THEN mpc' = l /\ UNCHANGED wpc
    ELSE wpc' = [wpc EXCEPT ![a] = l] /\ UNCHANGED mpc

\* Positions that are a `with tasks_lock:` statement.
WithLabels ==
    {"create", "running", "processing", "empty", "count", "merged",
     "waiting", "append", "completed", "failed", "except"}

MarkFailed(text) ==
    << <<"status", "failed">>, <<"completed_at", "now">>, <<"error", text>> >>

\* The assignments in the body of the `with tasks_lock` at a's position, in
\* the order of the source.
WithBlock(a) ==
    LET l == at(a) IN
    CASE l = "create" ->
            << <<"*", IF stage = "b" THEN "pending" ELSE "queued">> >>
      [] l = "running" ->
            << <<"status", "running">>, <<"started_at", "now">> >>
      [] l = "processing" ->
            << <<"status", "processing">>, <<"started_at", "now">> >>
      [] l = "empty" ->
            << <<"status", "completed">>, <<"completed_at", "now">>, <<"file_count", 0>> >>
      [] l = "count" ->
            IF stage = "b"
            THEN << <<"file_count", cti_files[a]>> >>
            ELSE << <<"file_count", cti_files[a]>>, <<"processed_files", <<>> >> >>
      [] l = "merged" ->
            << <<"merged_file", "path">> >>
      [] l = "waiting" ->
            << <<"agent_c_task_id", "remote">>, <<"status", "waiting_for_agent_c">> >>
      [] l = "append" ->
            << <<"processed_files.append", idx[a]>>, <<"status", "processing">> >>
      [] l = "completed" ->
            << <<"status", "completed">>, <<"completed_at", "now">> >>
      [] l = "failed" ->
            MarkFailed(IF stage = "b" THEN TransformError ELSE StagingError)
      [] l = "except" ->
            IF Exists(InHand(a)) THEN MarkFailed(HandoffError) ELSE <<>>

\* One assignment to the record (the merged_file field is not part of the
\* modelled record: its assignment takes its turn and leaves the rest alone).
Assign(rec, asg) ==
    LET field == asg[1]
        v == asg[2]
    IN  CASE field = "*" -> NewTask(v)
          [] field = "status" -> [rec EXCEPT !.status = v]
          [] field = "started_at" -> [rec EXCEPT !.started_at = Now(@)]
          [] field = "completed_at" -> [rec EXCEPT !.completed_at = Now(@)]
          [] field = "file_count" -> [rec EXCEPT !.file_count = v]
          [] field = "processed_files" -> [rec EXCEPT !.processed_files = v]
          [] field = "processed_files.append" ->
                [rec EXCEPT !.processed_files = Append(@, v)]
          [] field = "agent_c_task_id" -> [rec EXCEPT !.agent_c_task_id = v]
          [] field = "error" -> [rec EXCEPT !.error = v]
          [] field = "merged_file" -> rec

\* Where the thread continues after the `with` block.
Follow(l) ==
    CASE l = "create" -> IF stage = "b" THEN "running" ELSE "put"
      [] l \in {"running", "processing"} -> "scan"
      [] l = "count" -> IF stage = "b" THEN "merge" ELSE "loop"
      [] l = "merged" -> "ingest"
      [] l = "waiting" -> "wait"
      [] l = "append" -> "loop"
      [] l \in {"empty", "completed", "failed"} ->
            IF stage = "b" THEN "handoff" ELSE "get"
      [] l = "except" -> "idle"

\* The worker's call has returned: its locals are gone.
Forget(w) ==
    /\ wd' = [wd EXCEPT ![w] = 0]
    /\ cti_files' = [cti_files EXCEPT ![w] = 0]
    /\ idx' = [idx EXCEPT ![w] = 0]

\* A lock that lets every caller in.
AcquirableAlways(lock) == TRUE

\* Lock.acquire() blocks until the lock is free.
Acquirable(lock) == lock = Unlocked

\* `with tasks_lock:` entered by writer a.
acquire(a) ==
    /\ at(a) \in WithLabels
    /\ stmt[a] = 0
    /\ Acquirable(tasks_lock)
    /\ tasks_lock' = a
    /\ stmt' = [stmt EXCEPT ![a] = 1]
    /\ UNCHANGED <<stage, prefetch_count, pubVars, query, laneVars, brokerVars, connVars, chanVars, mpc, md,
                   tasks_storage, workq, workerVars, seqVars,
                   apc, all_tasks, task_infos>>

\* The next assignment of the body.
statement(a) ==
    /\ at(a) \in WithLabels
    /\ stmt[a] \in 1..Len(WithBlock(a))
    /\ tasks_storage' = [tasks_storage EXCEPT ![InHand(a)] = Assign(@, WithBlock(a)[stmt[a]])]
    /\ stmt' = [stmt EXCEPT ![a] = @ + 1]
    /\ UNCHANGED <<stage, prefetch_count, pubVars, query, laneVars, brokerVars, connVars, chanVars, mpc, md,
                   workq, workerVars, seqVars,
                   tasks_lock, apc, all_tasks, task_infos>>

\* End of the `with` block: the lock is released.
release(a) ==
    /\ at(a) \in WithLabels
    /\ stmt[a] = Len(WithBlock(a)) + 1
    /\ tasks_lock' = Unlocked
    /\ stmt' = [stmt EXCEPT ![a] = 0]
    /\ Goto(a, Follow(at(a)))
    /\ IF Follow(at(a)) \in {"idle", "get"}
       THEN Forget(a)
       ELSE UNCHANGED <<wd, cti_files, idx>>
    /\ UNCHANGED <<stage, prefetch_count, pubVars, query, laneVars, brokerVars, connVars, chanVars, md,
                   tasks_storage, workq, wexc, analysis_queue, current_task_id,
                   apc, all_tasks, task_infos>>

\* on_message.  Stage b submits the wrapper to the pool; stage c goes on to
\* create the record itself.
reg_on_message ==
    /\ mpc = "consume"
    /\ ndeliv < MaxDeliveries
    /\ ndeliv' = ndeliv + 1
    /\ IF stage = "b"
       THEN /\ workq' = Append(workq, ndeliv + 1)
            /\ UNCHANGED <<mpc, md>>
       ELSE /\ mpc' = "create"
            /\ md' = ndeliv + 1
            /\ UNCHANGED workq
    /\ UNCHANGED <<stage, prefetch_count, pubVars, query, laneVars, regVars, body, broker, dmsg, dlive,
                   connVars, chanVars, tasks_storage, workerVars, seqVars>>

\* Stage c on_message: analysis_queue.put((task_id, message_data)).
reg_put ==
    /\ stage = "c"
    /\ mpc = "put"
    /\ analysis_queue' = queue_put(analysis_queue, md)
    /\ mpc' = "consume"
    /\ UNCHANGED <<stage, prefetch_count, pubVars, query, laneVars, regVars, brokerVars, connVars, chanVars, md,
                   tasks_storage, workq, workerVars, current_task_id, cti_files, idx>>

\* Stage b: a pool thread starts process_message_wrapper; json.loads may
\* raise before the record exists.
reg_wrapper(w) ==
    /\ stage = "b"
    /\ wpc[w] = "idle"
    /\ workq # <<>>
    /\ workq' = Tail(workq)
    /\ wd' = [wd EXCEPT ![w] = Head(workq)]
    /\ \E l \in {"create", "except"} : wpc' = [wpc EXCEPT ![w] = l]
    /\ UNCHANGED <<stage, prefetch_count, pubVars, query, laneVars, regVars, brokerVars, connVars, chanVars, mpc, md,
                   tasks_storage, wexc, seqVars>>

\* Stage c: task_processor_worker takes the next task.
reg_get(w) ==
    /\ stage = "c"
    /\ wpc[w] = "get"
    /\ analysis_queue # <<>>
    /\ analysis_queue' = Tail(analysis_queue)
    /\ wd' = [wd EXCEPT ![w] = Head(analysis_queue)]
    /\ wpc' = [wpc EXCEPT ![w] = "processing"]
    /\ UNCHANGED <<stage, prefetch_count, pubVars, query, laneVars, regVars, brokerVars, connVars, chanVars, mpc, md,
                   tasks_storage, workq, wexc, current_task_id, cti_files, idx>>

\* load_and_transform_json_files / find_cti_files: how many files the scan
\* gave, or an exception.
reg_scan(w) ==
    /\ wpc[w] = "scan"
    /\ \/ \E n \in 0..MaxFiles :
            /\ cti_files' = [cti_files EXCEPT ![w] = n]
            /\ wpc' = [wpc EXCEPT ![w] = IF n = 0 THEN "empty" ELSE "count"]
       \/ /\ wpc' = [wpc EXCEPT ![w] = "failed"]
          /\ UNCHANGED cti_files
    /\ UNCHANGED <<stage, prefetch_count, pubVars, query, laneVars, regVars, brokerVars, connVars, chanVars, mpc, md,
                   tasks_storage, workq, wd, wexc, analysis_queue, current_task_id, idx>>

\* Stage b steps between two `with` blocks, each of which may raise:
\* merge_and_save, then execute_chunk_and_ingest and unlink, then the ack
\* hand-off of the wrapper.
reg_between(w) ==
    /\ stage = "b"
    /\ \/ wpc[w] = "merge" /\ \E l \in {"merged", "failed"} : wpc' = [wpc EXCEPT ![w] = l]
       \/ wpc[w] = "ingest" /\ \E l \in {"completed", "failed"} : wpc' = [wpc EXCEPT ![w] = l]
       \/ wpc[w] = "handoff" /\ \E l \in {"idle", "except"} : wpc' = [wpc EXCEPT ![w] = l]
    /\ IF wpc'[w] = "idle"
       THEN Forget(w)
       ELSE UNCHANGED <<wd, cti_files, idx>>
    /\ UNCHANGED <<stage, prefetch_count, pubVars, query, laneVars, regVars, brokerVars, connVars, chanVars, mpc, md,
                   tasks_storage, workq, wexc, analysis_queue, current_task_id>>

\* Stage c: the head of `for idx, cti_file in enumerate(cti_files, 1)` with
\* steps 2a and 2b: the artifact is accepted, rejected (continue), or its
\* staging raises; after the last artifact the task is marked completed.
reg_loop(w) ==
    /\ stage = "c"
    /\ wpc[w] = "loop"
    /\ IF idx[w] < cti_files[w]
       THEN /\ idx' = [idx EXCEPT ![w] = @ + 1]
            /\ \E l \in {"waiting", "loop", "failed"} : wpc' = [wpc EXCEPT ![w] = l]
       ELSE /\ wpc' = [wpc EXCEPT ![w] = "completed"]
            /\ UNCHANGED idx
    /\ UNCHANGED <<stage, prefetch_count, pubVars, query, laneVars, regVars, brokerVars, connVars, chanVars, mpc, md,
                   tasks_storage, workq, wd, wexc, analysis_queue, current_task_id, cti_files>>

\* Stage c: success = wait_for_agent_c_task(agent_c_task_id).
reg_wait(w) ==
    /\ stage = "c"
    /\ wpc[w] = "wait"
    /\ \E l \in {"append", "loop"} : wpc' = [wpc EXCEPT ![w] = l]
    /\ UNCHANGED <<stage, prefetch_count, pubVars, query, laneVars, regVars, brokerVars, connVars, chanVars, mpc, md,
                   tasks_storage, workq, wd, wexc, seqVars>>

\* ------------------------------------------------------------ API thread
\* status query parameter: absent, or a status.
StatusFilters == {"", "completed"}

\* list(tasks_storage.values()): references to the records now in the dict.
Values == SelectSeq([t \in 1..MaxDeliveries |-> t], LAMBDA t : Exists(t))

\* A handler enters its `with tasks_lock:`.
api_acquire ==
    /\ apc = "idle"
    /\ Acquirable(tasks_lock)
    /\ tasks_lock' = ApiThread
    /\ \E handler \in {"list_tasks", "get_task_status"} : apc' = handler
    /\ UNCHANGED <<stage, prefetch_count, pubVars, query, laneVars, brokerVars, connVars, chanVars, mpc, md,
                   tasks_storage, workq, workerVars, seqVars,
                   stmt, all_tasks, task_infos>>

\* list_tasks: all_tasks = list(tasks_storage.values()), end of the block.
list_tasks_values ==
    /\ apc = "list_tasks"
    /\ all_tasks' = Values
    /\ tasks_lock' = Unlocked
    /\ apc' = "filter"
    /\ UNCHANGED <<stage, prefetch_count, pubVars, query, laneVars, brokerVars, connVars, chanVars, mpc, md,
                   tasks_storage, workq, workerVars, seqVars,
                   stmt, task_infos>>

\* list_tasks outside the lock: the filter reads the status of each record
\* through its reference.  (created_at is never rewritten and limit keeps
\* its default, so sort and slice keep the list as it is.)
list_tasks_filter ==
    /\ apc = "filter"
    /\ \E status \in StatusFilters :
          all_tasks' = IF status # ""
                       THEN SelectSeq(all_tasks, LAMBDA t : tasks_storage[t].status = status)
                       ELSE all_tasks
    /\ apc' = "serialize"
    /\ UNCHANGED <<stage, prefetch_count, pubVars, query, laneVars, brokerVars, connVars, chanVars, mpc, md,
                   tasks_storage, workq, workerVars, seqVars,
                   tasks_lock, stmt, task_infos>>

\* get_task_status: task_data = tasks_storage.get(task_id), end of the
\* block; 404 if the task is absent.
get_task_status_get ==
    /\ apc = "get_task_status"
    /\ \E task_id \in Deliveries :
          IF Exists(task_id)
          THEN all_tasks' = <<task_id>> /\ apc' = "serialize"
          ELSE all_tasks' = <<>> /\ apc' = "idle"
    /\ tasks_lock' = Unlocked
    /\ UNCHANGED <<stage, prefetch_count, pubVars, query, laneVars, brokerVars, connVars, chanVars, mpc, md,
                   tasks_storage, workq, workerVars, seqVars,
                   stmt, task_infos>>

\* TaskInfo(**task): the fields are read from the record the reference
\* points at, as they are at this moment.
TaskInfo(t) == tasks_storage[t]

api_serialize ==
    /\ apc = "serialize"
    /\ all_tasks # <<>>
    /\ task_infos' = Append(task_infos, TaskInfo(Head(all_tasks)))
    /\ all_tasks' = Tail(all_tasks)
    /\ UNCHANGED <<stage, prefetch_count, pubVars, query, laneVars, brokerVars, connVars, chanVars, mpc, md,
                   tasks_storage, workq, workerVars, seqVars,
                   tasks_lock, stmt, apc>>

\* The response is returned.
api_return ==
    /\ apc = "serialize"
    /\ all_tasks = <<>>
    /\ apc' = "idle"
    /\ task_infos' = <<>>
    /\ UNCHANGED <<stage, prefetch_count, pubVars, query, laneVars, brokerVars, connVars, chanVars, mpc, md,
                   tasks_storage, workq, workerVars, seqVars,
                   tasks_lock, stmt, all_tasks>>

\* Either program once start_consumer is consuming: the pool threads idle
\* (stage b) or the TaskProcessor waiting on the queue (stage c).
InitRegistry ==
    /\ stage \in {"b", "c"}
    /\ body = [m \in Msgs |-> "json"]
    /\ broker = [m \in Msgs |-> "ready"]
    /\ ndeliv = 0
    /\ dmsg = [d \in Deliveries |-> 0]
    /\ dlive = [d \in Deliveries |-> FALSE]
    /\ connOpen = TRUE
    /\ callbacks = <<>>
    /\ issued = [d \in Deliveries |-> <<>>]
    /\ applied = [d \in Deliveries |-> <<>>]
    /\ mpc = "consume"
    /\ cancelled = FALSE
    /\ md = 0
    /\ tasks_storage = [d \in Deliveries |-> NoTask]
    /\ workq = <<>>
    /\ wpc = [w \in Threads |->
                IF stage = "b"
                THEN IF w <= ExecutorThreads THEN "idle" ELSE "none"
                ELSE IF w = 1 THEN "get" ELSE "none"]
    /\ wd = [w \in Threads |-> 0]
    /\ wexc = [w \in Threads |-> NoText]
    /\ analysis_queue = <<>>
    /\ current_task_id = 0
    /\ cti_files = [w \in Threads |-> 0]
    /\ idx = [w \in Threads |-> 0]
    /\ requests = {}
    /\ elapsed = 0
    /\ success = "none"
    /\ outcome = <<>>
    /\ NoPublisher
    /\ prefetch_count = 0
    /\ NoRequest

NextRegistry ==
    \/ reg_on_message
    \/ reg_put
    \/ \E a \in Writers : acquire(a)
    \/ \E a \in Writers : statement(a)
    \/ \E a \in Writers : release(a)
    \/ \E w \in Threads : reg_wrapper(w)
    \/ \E w \in Threads : reg_get(w)
    \/ \E w \in Threads : reg_scan(w)
    \/ \E w \in Threads : reg_between(w)
    \/ \E w \in Threads : reg_loop(w)
    \/ \E w \in Threads : reg_wait(w)
    \/ api_acquire
    \/ list_tasks_values
    \/ list_tasks_filter
    \/ get_task_status_get
    \/ api_serialize
    \/ api_return

SpecRegistry == InitRegistry /\ [][NextRegistry]_vars

\* The rest of a handler after its locked read, as one step: it takes no
\* lock and writes nothing to the registry.
api_rest ==
    /\ apc \in {"filter", "serialize"}
    /\ apc' = "idle"
    /\ all_tasks' = <<>>
    /\ UNCHANGED <<stage, prefetch_count, pubVars, query, laneVars, brokerVars, connVars, chanVars, mpc, md,
                   tasks_storage, workq, workerVars, seqVars,
                   tasks_lock, stmt, task_infos>>

\* The writers and the locked reads alone.
NextLock ==
    \/ reg_on_message
    \/ reg_put
    \/ \E a \in Writers : acquire(a)
    \/ \E a \in Writers : statement(a)
    \/ \E a \in Writers : release(a)
    \/ \E w \in Threads : reg_wrapper(w)
    \/ \E w \in Threads : reg_get(w)
    \/ \E w \in Threads : reg_scan(w)
    \/ \E w \in Threads : reg_between(w)
    \/ \E w \in Threads : reg_loop(w)
    \/ \E w \in Threads : reg_wait(w)
    \/ api_acquire
    \/ list_tasks_values
    \/ get_task_status_get
    \/ api_rest

SpecLock == InitRegistry /\ [][NextLock]_vars

\* A state of a record between two `with tasks_lock` blocks is complete:
\* a started task has its start time, a finished one its completion time
\* and, if completed, its file count.
Complete(rec) ==
    /\ rec.status \in {"running", "processing", "waiting_for_agent_c"} => rec.started_at # NoTime
    /\ rec.status \in Terminal => rec.completed_at # NoTime
    /\ rec.status = "completed" => rec.file_count # NoCount

\* While nobody holds the lock every record is complete.
CompleteWhenUnlocked ==
    tasks_lock = Unlocked => \A t \in Deliveries : Exists(t) => Complete(tasks_storage[t])

\* C18: a record served by get_task_status or list_tasks is a point-in-time
\* copy taken under the lock, so the TaskInfo built from it outside the lock
\* never shows an intermediate state of a multi-field update.
C18_PointInTimeCopies ==
    \A i \in 1..Len(task_infos) : Complete(task_infos[i])

\* A writer is inside a `with tasks_lock` body; the API thread is inside its
\* locked read.
Inside(a) == stmt[a] > 0
Reading == apc \in {"list_tasks", "get_task_status"}

\* C19: every insertion into and every field update of the registry is made
\* by the thread that holds tasks_lock, so no two threads are inside a
\* mutating block at once and none is inside one during a locked read.
C19_MutationsUnderLock ==
    /\ [](/\ \A a \in Writers : Inside(a) => tasks_lock = a
          /\ Reading => tasks_lock = ApiThread)
    /\ [][tasks_storage' # tasks_storage
            => /\ tasks_lock \in Writers
               /\ Inside(tasks_lock)
               /\ stmt'[tasks_lock] = stmt[tasks_lock] + 1
               /\ tasks_lock' = tasks_lock
               /\ ~Reading]_vars

\* A writer has made the first of its assignments while another thread
\* stands at its own `with tasks_lock`.
C19_Witness ==
    \E a, b \in Writers :
        /\ a # b
        /\ tasks_lock = a
        /\ at(a) \in WithLabels
        /\ Len(WithBlock(a)) >= 2
        /\ stmt[a] = 2
        /\ at(b) \in WithLabels
        /\ stmt[b] = 0

\* ============================================================ list_tasks
\* GET /tasks as a function of the registry content and the two query
\* parameters (the handler is the same text in both stages).

\* `if status:` : None and the empty string count as no filter.
Truthy(status) == status # NoText /\ status # ""

\* [t for t in all_tasks if t.get("status") == status]
filter_by_status(refs, storage, status) ==
    IF Truthy(status)
    THEN SelectSeq(refs, LAMBDA t : storage[t].status = status)
    ELSE refs

\* all_tasks.sort(key=created_at, reverse=True): stable, records with equal
\* keys keep the order they had.
RECURSIVE sort_reverse(_, _)
sort_reverse(refs, storage) ==
    IF refs = <<>>
    THEN <<>>
    ELSE LET front == sort_reverse(SubSeq(refs, 1, Len(refs) - 1), storage)
             x == refs[Len(refs)]
             k == Cardinality({i \in 1..Len(front) :
                                 storage[front[i]].created_at >= storage[x].created_at})
         IN  SubSeq(front, 1, k) \o <<x>> \o SubSeq(front, k + 1, Len(front))

\* all_tasks[:limit] of Python: a negative limit counts from the end.
slice_to(s, limit) ==
    LET n == Len(s)
        stop == IF limit < 0
                THEN (IF n + limit > 0 THEN n + limit ELSE 0)
                ELSE (IF limit < n THEN limit ELSE n)
    IN  SubSeq(s, 1, stop)

list_tasks(storage, status, limit) ==
    LET refs == SelectSeq([t \in 1..MaxDeliveries |-> t], LAMBDA t : storage[t] # NoTask)
    IN  slice_to(sort_reverse(filter_by_status(refs, storage, status), storage), limit)

\* Inputs: statuses of the records, status filters (None, empty, a status
\* in use, one not in use) and limits around the registry size.
ListStatuses == {"queued", "completed", "failed"}
Filters == {NoText, "", "completed", "running"}
Limits == (0 - MaxDeliveries)..(MaxDeliveries + 1)

\* A registry of n records inserted in the order of their ids: created_at
\* is taken inside the inserting `with tasks_lock`, so it never decreases
\* along the dict (equal values: a clock that has not moved).
InitList ==
    /\ stage = "c"
    /\ body = [m \in Msgs |-> "json"]
    /\ broker = [m \in Msgs |-> "acked"]
    /\ ndeliv = 0
    /\ dmsg = [d \in Deliveries |-> 0]
    /\ dlive = [d \in Deliveries |-> FALSE]
    /\ connOpen = TRUE
    /\ callbacks = <<>>
    /\ issued = [d \in Deliveries |-> <<>>]
    /\ applied = [d \in Deliveries |-> <<>>]
    /\ mpc = "consume"
    /\ cancelled = FALSE
    /\ md = 0
    /\ \E n \in 0..MaxDeliveries :
         \E st \in [1..n -> ListStatuses], at_ \in [1..n -> 1..MaxDeliveries] :
            /\ \A i, j \in 1..n : i < j => at_[i] <= at_[j]
            /\ tasks_storage = [d \in Deliveries |->
                                  IF d <= n
                                  THEN [NewTask(st[d]) EXCEPT !.created_at = at_[d]]
                                  ELSE NoTask]
    /\ workq = <<>>
    /\ wpc = [w \in Threads |-> IF w = 1 THEN "get" ELSE "none"]
    /\ wd = [w \in Threads |-> 0]
    /\ wexc = [w \in Threads |-> NoText]
    /\ analysis_queue = <<>>
    /\ current_task_id = 0
    /\ cti_files = [w \in Threads |-> 0]
    /\ idx = [w \in Threads |-> 0]
    /\ requests = {}
    /\ elapsed = 0
    /\ success = "none"
    /\ outcome = <<>>
    /\ NoPublisher
    /\ prefetch_count = 0
    /\ tasks_lock = Unlocked
    /\ stmt = [a \in Writers |-> 0]
    /\ apc = "idle"
    /\ all_tasks = <<>>
    /\ task_infos = <<>>
    /\ query \in [status : Filters, limit : Limits]

\* The whole handler on a registry no writer is touching.
list_tasks_call ==
    /\ apc = "idle"
    /\ all_tasks' = list_tasks(tasks_storage, query.status, query.limit)
    /\ task_infos' = [i \in 1..Len(all_tasks') |-> TaskInfo(all_tasks'[i])]
    /\ apc' = "returned"
    /\ UNCHANGED <<stage, prefetch_count, pubVars, query, laneVars, brokerVars, connVars, chanVars, mpc, md,
                   tasks_storage, workq, workerVars, seqVars, tasks_lock, stmt>>

NextList == list_tasks_call

SpecList == InitList /\ [][NextList]_vars

\* The tasks a status filter selects; an absent filter (no status parameter,
\* or an empty one) selects every task.
Matching ==
    {t \in Deliveries : Exists(t) /\ (query.status \in {NoText, ""} \/ Status(t) = query.status)}

\* The response holds the first `limit` of the matching tasks, newest first.
ListTasksContract ==
    LET want == IF query.limit < 0 THEN 0
                ELSE IF query.limit < Cardinality(Matching) THEN query.limit
                ELSE Cardinality(Matching)
    IN  /\ Len(all_tasks) = want
        /\ \A i \in 1..Len(all_tasks) : all_tasks[i] \in Matching
        /\ \A i, j \in 1..Len(all_tasks) : i < j => all_tasks[i] # all_tasks[j]
        /\ \A i, j \in 1..Len(all_tasks) :
              i < j => tasks_storage[all_tasks[i]].created_at >= tasks_storage[all_tasks[j]].created_at
        /\ \A t \in Matching \ Range(all_tasks) :
              \A i \in 1..Len(all_tasks) :
                  tasks_storage[all_tasks[i]].created_at >= tasks_storage[t].created_at
        /\ task_infos = [i \in 1..Len(all_tasks) |-> tasks_storage[all_tasks[i]]]
        /\ (\A t \in Deliveries : ~Exists(t)) => task_infos = <<>>

\* The contract for a limit that is not negative.
ListTasksInDomain ==
    (apc = "returned" /\ query.limit >= 0) => ListTasksContract

\* C20: list_tasks(status, limit) returns the tasks whose status equals the
\* filter (all tasks when the filter is absent), newest created_at first,
\* truncated to the first `limit` of them; it never answers not-found, and
\* an empty registry gives an empty list.
C20_ListTasks ==
    /\ apc \in {"idle", "returned"}
    /\ apc = "returned" => ListTasksContract

\* ============================================================== producer
\* agent_a_web: publish_message -> RabbitMQPublisher() ->
\* publish_with_timestamp -> publish, one call at a time, against the queue
\* a consumer stage declares at every (re)connection.  Calls of the pika
\* library either succeed or raise; `connection` is None, "open", "closed"
\* (by close()) or "lost" (is_closed is true without a close()).

PreconditionFailed == "PRECONDITION_FAILED"
ConnectionError == "AMQPConnectionError"
TypeError == "TypeError"
ValueError == "ValueError"

\* Kinds of message: one json.dumps accepts, one it raises TypeError on.
MessageKinds == {"json", "unserializable"}

\* The broker's queue.declare: creates the queue, accepts a declaration
\* equal to the existing one, and refuses any other with a channel error.
\* The messages are not touched.
QueueDeclare(q, durable) ==
    LET asked == IF durable THEN "durable" ELSE "transient"
    IN  IF q.declared = "none"
        THEN [ok |-> TRUE, queue |-> [q EXCEPT !.declared = asked]]
        ELSE [ok |-> q.declared = asked, queue |-> q]

\* A producer that declares the queue as not durable.
durable_off == FALSE

\* publish(..., durable: bool = True, ...), the value every caller leaves.
durable_default == TRUE

\* An exception is caught by `except Exception` of publish.
Caught(text, conn) ==
    [publisher EXCEPT !.pc = "except", !.error = text, !.connection = conn]

\* publish_message(queue_name, message, task_id): RabbitMQPublisher() reads
\* the environment; int(os.getenv("RABBITMQ_PORT", "5672")) raises
\* ValueError on a value that is not a number, outside any try.
publish_message ==
    /\ publisher.pc = "idle"
    /\ publisher.message < MaxMsgs
    /\ \E port_ok \in BOOLEAN, kind \in MessageKinds :
          publisher' = IF port_ok
                       THEN [Idle EXCEPT !.pc = "connect", !.message = publisher.message + 1,
                                         !.kind = kind]
                       ELSE [Idle EXCEPT !.pc = "done", !.message = publisher.message + 1,
                                         !.kind = kind, !.error = ValueError,
                                         !.result = "raised"]
    /\ UNCHANGED <<stage, prefetch_count, query, laneVars, regVars, brokerVars, connVars, chanVars, mpc, md,
                   tasks_storage, workq, workerVars, seqVars, queue>>

\* connection = self._get_connection()
get_connection ==
    /\ publisher.pc = "connect"
    /\ \/ publisher' = [publisher EXCEPT !.pc = "channel", !.connection = "open"]
       \/ publisher' = Caught(ConnectionError, "None")
    /\ UNCHANGED <<stage, prefetch_count, query, laneVars, regVars, brokerVars, connVars, chanVars, mpc, md,
                   tasks_storage, workq, workerVars, seqVars, queue>>

\* channel = connection.channel()
open_channel ==
    /\ publisher.pc = "channel"
    /\ \/ publisher' = [publisher EXCEPT !.pc = "declare"]
       \/ publisher' = Caught(ConnectionError, "lost")
    /\ UNCHANGED <<stage, prefetch_count, query, laneVars, regVars, brokerVars, connVars, chanVars, mpc, md,
                   tasks_storage, workq, workerVars, seqVars, queue>>

\* channel.queue_declare(queue=queue_name, durable=durable)
queue_declare ==
    /\ publisher.pc = "declare"
    /\ \/ LET r == QueueDeclare(queue, durable_default)
          IN  /\ queue' = r.queue
              /\ publisher' = IF r.ok
                              THEN [publisher EXCEPT !.pc = "dumps", !.declared = TRUE]
                              ELSE Caught(PreconditionFailed, "open")
       \/ /\ publisher' = Caught(ConnectionError, "lost")
          /\ UNCHANGED queue
    /\ UNCHANGED <<stage, prefetch_count, query, laneVars, regVars, brokerVars, connVars, chanVars, mpc, md,
                   tasks_storage, workq, workerVars, seqVars>>

\* body = json.dumps(message)
json_dumps ==
    /\ publisher.pc = "dumps"
    /\ publisher' = IF publisher.kind = "json"
                    THEN [publisher EXCEPT !.pc = "publish"]
                    ELSE Caught(TypeError, "open")
    /\ UNCHANGED <<stage, prefetch_count, query, laneVars, regVars, brokerVars, connVars, chanVars, mpc, md,
                   tasks_storage, workq, workerVars, seqVars, queue>>

\* channel.basic_publish(...) and `return True`, which runs `finally`.
basic_publish ==
    /\ publisher.pc = "publish"
    /\ \/ /\ queue' = [queue EXCEPT !.messages = Append(@, publisher.message)]
          /\ publisher' = [publisher EXCEPT !.pc = "finally", !.published = TRUE,
                                            !.result = "True"]
       \/ /\ publisher' = Caught(ConnectionError, "lost")
          /\ UNCHANGED queue
    /\ UNCHANGED <<stage, prefetch_count, query, laneVars, regVars, brokerVars, connVars, chanVars, mpc, md,
                   tasks_storage, workq, workerVars, seqVars>>

\* except Exception: log, `return False`, which runs `finally`.
publish_except ==
    /\ publisher.pc = "except"
    /\ publisher' = [publisher EXCEPT !.pc = "finally", !.result = "False"]
    /\ UNCHANGED <<stage, prefetch_count, query, laneVars, regVars, brokerVars, connVars, chanVars, mpc, md,
                   tasks_storage, workq, workerVars, seqVars, queue>>

\* connection.close(): closes the channels and the connection and waits for
\* the broker's answer; a connection that breaks meanwhile makes it raise.
close(conn) ==
    {[connection |-> "closed", raised |-> FALSE], [connection |-> "lost", raised |-> TRUE]}

\* finally: if connection and not connection.is_closed: connection.close()
\* An exception raised here replaces the pending return value.
publish_finally ==
    /\ publisher.pc = "finally"
    /\ IF publisher.connection = "open"
       THEN \E r \in close(publisher.connection) :
               publisher' = [publisher EXCEPT
                               !.pc = "done", !.connection = r.connection,
                               !.result = IF r.raised THEN "raised" ELSE @,
                               !.error = IF r.raised THEN ConnectionError ELSE @]
       ELSE publisher' = [publisher EXCEPT !.pc = "done"]
    /\ UNCHANGED <<stage, prefetch_count, query, laneVars, regVars, brokerVars, connVars, chanVars, mpc, md,
                   tasks_storage, workq, workerVars, seqVars, queue>>

\* The call is over; the caller goes on.
publish_return ==
    /\ publisher.pc = "done"
    /\ publisher' = [Idle EXCEPT !.message = publisher.message]
    /\ UNCHANGED <<stage, prefetch_count, query, laneVars, regVars, brokerVars, connVars, chanVars, mpc, md,
                   tasks_storage, workq, workerVars, seqVars, queue>>

\* A consumer stage, one pass of the loop body of start_consumer up to
\* start_consuming(): channel.queue_declare(queue=RABBITMQ_QUEUE,
\* durable=True); a refused declaration raises into `except Exception`.
consumer_declare ==
    /\ mpc = "connect"
    /\ LET r == QueueDeclare(queue, TRUE)
       IN  /\ queue' = r.queue
           /\ connOpen' = r.ok
           /\ mpc' = IF r.ok THEN "consume" ELSE AfterException
    /\ UNCHANGED <<stage, prefetch_count, query, laneVars, regVars, brokerVars, callbacks, cancelled, chanVars, md,
                   tasks_storage, workq, workerVars, seqVars, publisher>>

\* The consumer about to connect, the producer idle, no queue yet.
InitPublish ==
    /\ stage \in {"b", "c"}
    /\ body = [m \in Msgs |-> "json"]
    /\ broker = [m \in Msgs |-> "ready"]
    /\ ndeliv = 0
    /\ dmsg = [d \in Deliveries |-> 0]
    /\ dlive = [d \in Deliveries |-> FALSE]
    /\ connOpen = FALSE
    /\ callbacks = <<>>
    /\ issued = [d \in Deliveries |-> <<>>]
    /\ applied = [d \in Deliveries |-> <<>>]
    /\ mpc = "connect"
    /\ cancelled = FALSE
    /\ md = 0
    /\ tasks_storage = [d \in Deliveries |-> NoTask]
    /\ workq = <<>>
    /\ wpc = [w \in Threads |-> "none"]
    /\ wd = [w \in Threads |-> 0]
    /\ wexc = [w \in Threads |-> NoText]
    /\ analysis_queue = <<>>
    /\ current_task_id = 0
    /\ cti_files = [w \in Threads |-> 0]
    /\ idx = [w \in Threads |-> 0]
    /\ requests = {}
    /\ elapsed = 0
    /\ success = "none"
    /\ outcome = <<>>
    /\ NoRequest
    /\ NoPublisher
    /\ prefetch_count = 0

NextPublish ==
    \/ publish_message
    \/ get_connection
    \/ open_channel
    \/ queue_declare
    \/ json_dumps
    \/ basic_publish
    \/ publish_except
    \/ publish_finally
    \/ publish_return
    \/ consumer_declare
    \/ connect_failed
    \/ backoff
    \/ connection_lost

SpecPublish == InitPublish /\ [][NextPublish]_vars

\* C21: every (re)connection of a consumer and every publish declares the
\* queue, as durable; declaring it again is never refused and leaves the
\* messages in it as they are: the queue changes only by a publish adding
\* its message at the end.
C21_DeclareIdempotent ==
    /\ [](/\ queue.declared \in {"none", "durable"}
          /\ publisher.error # PreconditionFailed
          /\ publisher.published => publisher.declared
          /\ mpc = "consume" => queue.declared = "durable")
    /\ [][/\ (publisher.pc = "declare" /\ publisher'.pc = "dumps")
               => queue'.messages = queue.messages
          /\ (mpc = "connect" /\ mpc' # "connect" /\ queue.declared = "durable")
               => (mpc' = "consume" \/ queue' = queue) /\ queue'.messages = queue.messages
          /\ queue'.messages # queue.messages
               => /\ publisher.pc = "publish"
                  /\ queue'.messages = Append(queue.messages, publisher.message)]_vars

\* The producer has declared the queue again while it held a message, with
\* a consumer connected that declared it too.
C21_Witness ==
    /\ queue.declared = "durable"
    /\ queue.messages = <<1>>
    /\ publisher.message = 2
    /\ publisher.pc = "dumps"
    /\ mpc = "consume"

\* The call has ended by an exception leaving publish_message.
Raised == publisher.pc = "done" /\ publisher.result = "raised"

\* The call returned what it should: True exactly when the declaration and
\* the publish both succeeded, with no connection left open.
ReturnedRight ==
    /\ publisher.result \in {"True", "False"}
    /\ publisher.result = "True" <=> (publisher.declared /\ publisher.published)
    /\ publisher.connection # "open"

\* A call whose constructor and whose close() went well returns right.
ReturnsRightUnlessRaised ==
    (publisher.pc = "done" /\ ~Raised) => ReturnedRight

\* C25: publish, and publish_message built on it, never raises: it returns
\* True exactly when the queue declaration and the publish both succeeded,
\* False on any failure, and a connection it opened is closed before it
\* returns.
C25_PublishNeverRaises ==
    publisher.pc = "done" => ReturnedRight

\* Stage b: the deliveries whose unit of work (process_message_wrapper) is
\* waiting in the executor's queue or running on one of its threads.  A
\* message delivered again after a reconnection is a unit of work again.
InFlight ==
    Range(workq) \cup {wd[w] : w \in {v \in Threads : wpc[v] \notin {"idle", "none"}}}

\* C22: in the parallel stage the deliveries handed to the pool and not yet
\* finished by it are never more than max_workers, in every execution,
\* reconnections included.
C22_Backpressure ==
    stage = "b" => Cardinality(InFlight) <= max_workers

\* ================================ both stages without shutdown, scheduled
\* fairly: no KeyboardInterrupt reaches start_consumer, every thread that
\* can take a step takes it in the end (the owning thread's put after
\* creating a task, the pool threads and the TaskProcessor thread).  The
\* transform and the remote service answer or raise as they like.
WorkerStep(w) ==
    \/ b_wrapper_begin(w)
    \/ b_process_message_start(w)
    \/ b_process_message_load(w)
    \/ b_process_message_ingest(w)
    \/ b_wrapper_ack(w)
    \/ b_wrapper_except(w)
    \/ b_wrapper_nack(w)
    \/ c_worker_get(w)
    \/ c_process_begin(w)
    \/ c_process_mark(w)
    \/ c_process_find(w, MaxFiles)
    \/ c_process_artifact(w)
    \/ c_process_wait(w)
    \/ c_process_complete(w)
    \/ c_process_finally(w)

NextRunning ==
    \/ start_consumer
    \/ connect
    \/ connect_failed
    \/ backoff
    \/ connection_lost
    \/ \E m \in Msgs : b_on_message(m)
    \/ run_callback
    \/ \E m \in Msgs : c_on_message(m)
    \/ c_on_message_put
    \/ c_on_message_ack
    \/ c_on_message_nack
    \/ \E w \in Threads : WorkerStep(w)

SpecRunning ==
    /\ Init
    /\ [][NextRunning]_vars
    /\ WF_vars(c_on_message_put)
    /\ \A w \in Threads : WF_vars(WorkerStep(w))

InitialStatus == IF stage = "b" THEN "pending" ELSE "queued"

\* A task record appears in its stage's initial status.
StartsInitial ==
    [][\A t \in Deliveries :
        (~Exists(t) /\ tasks_storage'[t] # NoTask)
        => tasks_storage'[t].status = InitialStatus]_vars

\* Every task that exists is completed or failed in the end.
EndsTerminal ==
    \A t \in Deliveries : [](Exists(t) => <>(Status(t) \in Terminal))

\* A task that is completed or failed has no other status later.
OneTerminalStatus ==
    [][\A t \in Deliveries :
        (Exists(t) /\ Status(t) \in Terminal)
        => tasks_storage'[t].status = Status(t)]_vars

\* C23: without shutdown and under fair scheduling every task starts in its
\* stage's initial status, is completed or failed in the end, and once it
\* is one of the two it is never the other.
C23_ExactlyOneTerminalStatus ==
    /\ StartsInitial
    /\ EndsTerminal
    /\ OneTerminalStatus

\* ------------------------------------------- failures on the task record
\* A record, or a TaskInfo built from one, that is failed carries an error.
FailedHasError(rec) == rec.status = "failed" => rec.error # NoText

\* The registry as any thread holding tasks_lock, or running while
\* nobody holds it, finds it.
FailedHasErrorInRegistry ==
    tasks_lock = Unlocked
    => \A t \in Deliveries : Exists(t) => FailedHasError(tasks_storage[t])

\* What GET /tasks and GET /tasks/{task_id} are about to return.
FailedHasErrorInResponse ==
    \A i \in DOMAIN task_infos : FailedHasError(task_infos[i])

\* A writer that leaves an `except Exception` handler with a task in hand
\* leaves it failed with the exception's text; no record is ever removed.
FailureSurfaces ==
    [][/\ \A a \in Writers :
            (/\ at(a) \in {"failed", "except"}
             /\ tasks_lock = a
             /\ tasks_lock' = Unlocked
             /\ Exists(InHand(a)))
            => /\ Status(InHand(a)) = "failed"
               /\ tasks_storage[InHand(a)].error \in {TransformError, StagingError, HandoffError}
       /\ \A t \in Deliveries : Exists(t) => tasks_storage'[t] # NoTask]_vars

\* C24: an exception while a task is processed leaves the task failed with
\* the exception's text on its record, records are never removed, and
\* neither the registry nor a response of the status projection shows a
\* task that is failed with error null.
C24_FailedHasError ==
    /\ FailureSurfaces
    /\ [](FailedHasErrorInRegistry /\ FailedHasErrorInResponse)

\* ------------------------------------------ the lane's status transitions
\* The arrows of the sequential lane's state machine.
LaneTransitions ==
    {<<"queued", "processing">>,
     <<"processing", "waiting_for_agent_c">>,
     <<"waiting_for_agent_c", "processing">>,
     <<"processing", "completed">>,
     <<"processing", "failed">>}

\* What the code does: the arrows of the state machine, and after an
\* artifact of the batch failed remotely (status left at
\* waiting_for_agent_c) the arrows from there into a terminal status.
StatusChanges ==
    [][\A t \in Deliveries :
        (Exists(t) /\ tasks_storage'[t].status # Status(t))
        => \/ <<Status(t), tasks_storage'[t].status>> \in LaneTransitions
           \/ /\ Status(t) = "waiting_for_agent_c"
              /\ tasks_storage'[t].status \in Terminal
              /\ \E i \in DOMAIN outcome :
                    outcome[i] \in {"failed", "not_found", "timeout"}]_vars

\* C26: sequential lane: a task's status changes only along queued ->
\* processing, processing <-> waiting_for_agent_c, processing -> completed
\* and processing -> failed.
C26_LaneTransitions ==
    [][\A t \in Deliveries :
        (Exists(t) /\ tasks_storage'[t].status # Status(t))
        => <<Status(t), tasks_storage'[t].status>> \in LaneTransitions]_vars

\* ------------------------------------------------------------ started_at
Started == {"running", "processing"}

\* C27: both stages: started_at is written only by the step that takes the
\* task out of its initial status into running / processing, that step
\* always writes it, and it is never written again; so a task has
\* started_at exactly when it has left the initial status, every terminal
\* task included.
C27_StartedAtOnce ==
    /\ [](\A t \in Deliveries :
            Exists(t) =>
                /\ (tasks_storage[t].started_at = NoTime) = (Status(t) = InitialStatus)
                /\ Status(t) \in Terminal => tasks_storage[t].started_at # NoTime)
    /\ [][\A t \in Deliveries :
            Exists(t) =>
                /\ tasks_storage'[t] # NoTask
                /\ (tasks_storage'[t].started_at # tasks_storage[t].started_at)
                   = (Status(t) = InitialStatus /\ tasks_storage'[t].status # InitialStatus)
                /\ (Status(t) = InitialStatus /\ tasks_storage'[t].status # InitialStatus)
                   => tasks_storage'[t].status \in Started]_vars

\* Stage b: a task that process_message completed and the wrapper's handler
\* then wrote again, with the started_at of its one start.
C27_Witness ==
    /\ stage = "b"
    /\ \E t \in Deliveries :
        /\ Exists(t)
        /\ Status(t) = "failed"
        /\ tasks_storage[t].error = HandoffError
        /\ tasks_storage[t].started_at = Now(NoTime)

\* ------------------------------------------- an exception in the batch
\* C28: sequential lane: the step that fails a task (an exception of
\* find_cti_files or copy_and_add_id) writes the error text and
\* completed_at, sends no request and leaves processed_files as it was; the
\* worker is then at the end of process_analysis_task, attempts no further
\* artifact of the batch, never writes the failed record again, and from
\* there goes back to analysis_queue.get() for the next task.
C28_ExceptionFailsTask ==
    /\ [](\A w \in Holding :
            Status(wd[w]) = "failed"
            => /\ wpc[w] = "finally"
               /\ tasks_storage[wd[w]].error = StagingError
               /\ tasks_storage[wd[w]].completed_at # NoTime)
    /\ [][\A t \in Deliveries :
            Exists(t) =>
                /\ (Status(t) # "failed" /\ tasks_storage'[t].status = "failed")
                    => /\ tasks_storage'[t].error = StagingError
                       /\ tasks_storage'[t].completed_at # NoTime
                       /\ tasks_storage'[t].processed_files = tasks_storage[t].processed_files
                       /\ requests' = requests
                /\ Status(t) = "failed" => tasks_storage'[t] = tasks_storage[t]]_vars
    /\ [][\A w \in Threads :
            (wpc[w] = "finally" /\ wpc'[w] # "finally")
            => /\ wpc'[w] = "get"
               /\ wd'[w] = 0
               /\ analysis_queue' = analysis_queue]_vars

\* The second artifact's staging failed after the first was recorded, and
\* the worker is processing the next task.
C28_Witness ==
    \E t, u \in Deliveries :
        /\ Exists(t) /\ Status(t) = "failed"
        /\ FileCount(t) = 2
        /\ ProcessedFiles(t) = <<1>>
        /\ Exists(u) /\ Status(u) = "processing"
        /\ \E w \in Holding : wd[w] = u

\* --------------------------------------------------- a failed submission
\* C29: sequential lane: a submission that fails returns None to
\* process_analysis_task: nothing is written to the task record (no
\* waiting_for_agent_c for this artifact), no status request is sent for it
\* and the loop goes on to the next artifact or to completion; the artifact
\* is never in processed_files, and a task whose artifacts were all
\* attempted ends completed (only a staging exception ends a batch early).
C29_RejectedSkipped ==
    /\ [](\A w \in Holding : \A i \in DOMAIN outcome :
            outcome[i] = "rejected"
            => /\ i \notin Range(ProcessedFiles(wd[w]))
               /\ Status(wd[w]) = "failed" => tasks_storage[wd[w]].error = StagingError
               /\ Finishing(w) =>
                    \/ /\ Len(outcome) = FileCount(wd[w])
                       /\ Status(wd[w]) = "completed"
                    \/ /\ Len(outcome) < FileCount(wd[w])
                       /\ Status(wd[w]) = "failed")
    /\ [][\A w \in Holding :
            (wpc[w] = "submit" /\ wpc'[w] \notin {"submit", "check"})
            => /\ outcome' = Append(outcome, "rejected")
               /\ tasks_storage' = tasks_storage
               /\ requests' \ requests \subseteq {<<wd[w], "submit">>}
               /\ wpc'[w] = IF idx[w] < cti_files[w] THEN "artifact" ELSE "complete"]_vars

\* The first artifact's submission failed, the second was analysed, and the
\* task is completed with the second artifact alone.
C29_Witness ==
    \E w \in Holding :
        /\ Finishing(w) /\ Status(wd[w]) = "completed"
        /\ outcome = <<"rejected", "completed">>
        /\ ProcessedFiles(wd[w]) = <<2>>

\* ------------------------------------------------- the remote poller
\* The lane draining one queued task, its worker thread scheduled again and
\* again and the clock advancing through every sleep: wait_for_agent_c_task
\* is called once for every artifact the remote service accepts.
InitPoller == InitLane /\ ndeliv = 1

SpecPoller == InitPoller /\ [][NextLane]_vars /\ WF_vars(NextLane)

\* The worker is inside wait_for_agent_c_task.
Waiting(w) == wpc[w] \in {"check", "poll"}

\* C30: remote poller: inside wait_for_agent_c_task nothing but the loop's
\* own steps happens (no exception leaves it: the task record is untouched
\* and control stays in the loop or returns); an answer that is not
\* completed, failed or not_found is followed by a sleep of at least
\* poll_interval and the next pass; the wait returns True only on
\* completed and False only on failed, not_found or a check past the
\* timeout; no poll is made past the timeout, so the time spent stays
\* bounded and every wait returns.
C30_PollerReturns ==
    /\ [](\A w \in Holding :
            /\ wpc[w] = "poll" => elapsed <= timeout
            /\ Waiting(w) => elapsed <= timeout + poll_interval + MaxLatency
            /\ wpc[w] = "record" =>
                /\ success \in {"True", "False"}
                /\ outcome # <<>>
                /\ (success = "True") = (outcome[Len(outcome)] = "completed")
                /\ success = "False"
                   => outcome[Len(outcome)] \in {"failed", "not_found", "timeout"})
    /\ [][\A w \in Holding :
            Waiting(w) =>
                /\ wpc'[w] \in {"check", "poll", "record"}
                /\ tasks_storage' = tasks_storage
                /\ (wpc[w] = "check" /\ wpc'[w] = "record")
                    => (elapsed > timeout /\ outcome' = Append(outcome, "timeout"))
                /\ (wpc[w] = "poll" /\ wpc'[w] = "check")
                    => (elapsed' >= elapsed + poll_interval /\ outcome' = outcome)]_vars
    /\ \A w \in Threads : [](Waiting(w) => <>(wpc[w] = "record"))

\* The wait returned False on the timeout after at least one poll that was
\* answered with something other than a terminal status.
C30_Witness ==
    \E w \in Holding :
        /\ wpc[w] = "record"
        /\ success = "False"
        /\ outcome[Len(outcome)] = "timeout"
        /\ <<wd[w], "poll">> \in requests
        /\ elapsed > timeout

\* --------------------------------------------- nack once a task exists
\* C31: both stages: for a delivery whose task record exists, a
\* basic_nack(requeue=True) is issued only after the acknowledgment was
\* attempted and raised (nothing was applied on the channel for it); the
\* outcome of the transform or of the batch never leads to a nack.
C31_NackOnlyAfterAckRaised ==
    \A d \in Deliveries :
        (Exists(d) /\ "nack" \in Range(issued[d]))
        => /\ issued[d] = <<"ack", "nack">>
           /\ "ack" \notin AppliedOps(d)
           /\ ~ConnectionUsable(d)

\* Stage b: the transform failed, the ack hand-off raised on the lost
\* connection, and the nack followed.
C31_Witness ==
    /\ stage = "b"
    /\ \E d \in Deliveries :
        /\ Exists(d)
        /\ issued[d] = <<"ack", "nack">>
        /\ tasks_storage[d].error = HandoffError
        /\ tasks_storage[d].completed_at = Now(Now(NoTime))

\* ---------------------------------------------------- duplicate tasks
\* Deliveries d and e, e the later one, carry the same message and each has
\* its task.
Duplicate(d, e) ==
    /\ d < e
    /\ Made(d) /\ Made(e)
    /\ dmsg[d] = dmsg[e]
    /\ Exists(d) /\ Exists(e)

\* The acknowledgment of delivery d raised (the nack of the handler
\* followed it).
AckRaised(d) == issued[d] = <<"ack", "nack">>

BlockingConnection ==
    /\ mpc = "connect"
    /\ connOpen' = TRUE
    /\ callbacks' = <<>>
    /\ prefetch_count' = 0
    /\ mpc' = "channel"
    /\ UNCHANGED <<stage, pubVars, query, laneVars, regVars, brokerVars, cancelled, chanVars,
                   md, tasks_storage, workq, workerVars, seqVars>>

\* channel = connection.channel(): a new channel, whose prefetch is not set.
connection_channel ==
    /\ mpc = "channel"
    /\ connOpen
    /\ prefetch_count' = 0
    /\ mpc' = "queue_declare"
    /\ UNCHANGED <<stage, pubVars, query, laneVars, regVars, brokerVars, connVars, chanVars,
                   md, tasks_storage, workq, workerVars, seqVars>>

\* channel.queue_declare(queue=RABBITMQ_QUEUE, durable=True); a refused
\* declaration raises into `except Exception`.
channel_queue_declare ==
    /\ mpc = "queue_declare"
    /\ connOpen
    /\ LET r == QueueDeclare(queue, TRUE)
       IN  /\ queue' = r.queue
           /\ mpc' = IF r.ok THEN "basic_qos" ELSE AfterException
    /\ UNCHANGED <<stage, prefetch_count, publisher, query, laneVars, regVars, brokerVars, connVars,
                   chanVars, md, tasks_storage, workq, workerVars, seqVars>>

\* A loop body that goes on to basic_consume without calling basic_qos.
channel_basic_qos_skipped ==
    /\ mpc = "basic_qos"
    /\ connOpen
    /\ mpc' = "basic_consume"
    /\ UNCHANGED <<stage, prefetch_count, pubVars, query, laneVars, regVars, brokerVars, connVars,
                   chanVars, md, tasks_storage, workq, workerVars, seqVars>>

\* channel.basic_qos(prefetch_count=max_workers) in stage b,
\* channel.basic_qos(prefetch_count=1) in stage c.
channel_basic_qos ==
    /\ mpc = "basic_qos"
    /\ connOpen
    /\ prefetch_count' = Prefetch
    /\ mpc' = "basic_consume"
    /\ UNCHANGED <<stage, pubVars, query, laneVars, regVars, brokerVars, connVars, chanVars,
                   md, tasks_storage, workq, workerVars, seqVars>>

\* channel.basic_consume(queue=RABBITMQ_QUEUE, on_message_callback=...),
\* then channel.start_consuming(): from here on the broker delivers.
channel_basic_consume ==
    /\ mpc = "basic_consume"
    /\ connOpen
    /\ mpc' = "consume"
    /\ UNCHANGED <<stage, prefetch_count, pubVars, query, laneVars, regVars, brokerVars, connVars,
                   chanVars, md, tasks_storage, workq, workerVars, seqVars>>

Connecting == {"channel", "queue_declare", "basic_qos", "basic_consume"}

\* The connection was lost between two statements of the loop body: the
\* next channel call raises into `except Exception`.
channel_call_raises ==
    /\ mpc \in Connecting
    /\ ~connOpen
    /\ mpc' = AfterException
    /\ UNCHANGED <<stage, prefetch_count, pubVars, query, laneVars, regVars, brokerVars, connVars,
                   chanVars, md, tasks_storage, workq, workerVars, seqVars>>

NextConnect ==
    \/ start_consumer
    \/ BlockingConnection
    \/ connect_failed
    \/ connection_channel
    \/ channel_queue_declare
    \/ channel_basic_qos
    \/ channel_basic_consume
    \/ channel_call_raises
    \/ backoff
    \/ connection_lost
    \/ \E m \in Msgs : b_on_message(m)
    \/ \E m \in Msgs : c_on_message(m)
    \/ c_on_message_put
    \/ c_on_message_ack
    \/ c_on_message_nack

SpecConnect == Init /\ [][NextConnect]_vars

\* The channel start_consuming() runs on: opened on the connection that is
\* open now, the queue declared durable on it, its prefetch set.
ChannelReady ==
    /\ connOpen
    /\ queue.declared = "durable"
    /\ prefetch_count = Prefetch

\* C33: each pass of the connect loop, the first and the one after every
\* failure, opens a new connection and a new channel, declares the queue as
\* durable and sets the channel's prefetch (max_workers in stage b, 1 in
\* stage c) before it consumes: the broker delivers a message only on a
\* channel of the open connection whose prefetch is set, the queue declared
\* durable; and a pass that follows a failure starts from a new connection.
C33_PrefetchBeforeDelivery ==
    /\ [][ndeliv' # ndeliv => ChannelReady]_vars
    /\ [][(mpc = "basic_consume" /\ mpc' = "consume") => ChannelReady]_vars
    /\ [][(mpc = AfterException /\ mpc' # mpc)
          => (mpc' = "connect" /\ ~connOpen)]_vars
    /\ [][(mpc = "connect" /\ mpc' = "channel")
          => (~connOpen /\ connOpen' /\ prefetch_count' = 0)]_vars

\* A message delivered on the channel of a second connection, after the
\* first one was lost with a delivery unacknowledged.
C33_Witness ==
    /\ ndeliv = 2
    /\ ~dlive[1]
    /\ dlive[2]
    /\ ChannelReady
    /\ mpc = "consume"

\* Units of work submitted to the executor that no thread has taken yet.
WaitingForWorker == Range(workq)

\* C34: in the parallel stage every well-formed message that was received
\* and whose unit of work waits for a free worker has a task record, in
\* status pending: the record is created before the unit is submitted.
C34_WaitingIsPending ==
    stage = "b" =>
        \A d \in WaitingForWorker :
            json_loads(body[dmsg[d]]) => (Exists(d) /\ Status(d) = "pending")

\* ============================== bodies of every JSON type on the queue
InitDecode == InitWith(JsonTexts)

SpecDecode ==
    /\ InitDecode
    /\ [][NextRunning]_vars
    /\ WF_vars(c_on_message_put)
    /\ \A w \in Threads : WF_vars(WorkerStep(w))

\* C35: in both stages a delivery whose body is not a JSON object (not
\* JSON at all, or a JSON array, string, number or null) never gets a task
\* record and no ack is ever issued for it.
C35_NonObjectRejected ==
    \A d \in Deliveries :
        (Made(d) /\ body[dmsg[d]] # "json")
        => (~Exists(d) /\ "ack" \notin Range(issued[d]))

\* ============================ the registry and get-by-id, program running
\* Either program consuming (the connection may be lost), with the API
\* thread serving list_tasks and get_task_status requests.
NextLookup ==
    \/ connection_lost
    \/ \E m \in Msgs : b_on_message(m)
    \/ run_callback
    \/ \E m \in Msgs : c_on_message(m)
    \/ c_on_message_put
    \/ c_on_message_ack
    \/ c_on_message_nack
    \/ \E w \in Threads : WorkerStep(w)
    \/ api_acquire
    \/ list_tasks_values
    \/ get_task_status_get
    \/ api_rest

SpecLookup == InitRegistry /\ [][NextLookup]_vars

\* The record of t is the one that was created for t.
SameRecord(t) ==
    /\ tasks_storage'[t] # NoTask
    /\ tasks_storage'[t].created_at = tasks_storage[t].created_at

\* get_task_status leaves its `with tasks_lock:` block.
Looked == apc = "get_task_status" /\ apc' # apc

WorkerIdle == analysis_queue = <<>> /\ \A w \in Threads : wpc[w] \in {"get", "none"}

\* C37: in the sequential stage a task that is processing or
\* waiting_for_agent_c is the one current_task_id names; while the worker is
\* blocked on the empty queue current_task_id is None; and a task the
\* pointer does not name is still queued or already terminal, i.e. the
\* pointer is set before the task leaves queued and cleared only after the
\* task is completed or failed, whichever way process_analysis_task ends.
C37_CurrentTaskPointer ==
    stage = "c" =>
        /\ \A t \in Deliveries :
            (Exists(t) /\ Status(t) \in Active) => current_task_id = t
        /\ WorkerIdle => current_task_id = 0
        /\ \A t \in Deliveries :
            (Exists(t) /\ current_task_id # t)
            => Status(t) \in {"queued"} \cup Terminal
        /\ current_task_id # 0 => Exists(current_task_id)

\* The second task is waiting for the remote service under the pointer,
\* after the first one ended failed and the pointer was cleared.
C37_Witness ==
    /\ stage = "c"
    /\ \E t, u \in Deliveries :
        /\ Exists(t) /\ Status(t) = "failed"
        /\ Exists(u) /\ Status(u) = "waiting_for_agent_c"
        /\ current_task_id = u

\* Entries of the internal queue that hold task t.
EntryCount(t) == Cardinality({i \in DOMAIN analysis_queue : analysis_queue[i] = t})

\* task_processor_worker has taken t from the queue and process_analysis_task
\* has not marked it processing yet.
JustDequeued(t) == \E w \in Threads : wd[w] = t /\ wpc[w] \in {"begin", "mark"}

\* on_message has created the record of t and has not called
\* analysis_queue.put yet.
JustCreated(t) == mpc = "om_put" /\ md = t

\* No task has two entries, a task that left queued has none, and at most
\* one task is in the worker's hand before it is marked.
NoStaleEntry ==
    /\ \A t \in Deliveries : EntryCount(t) <= 1
    /\ \A t \in Deliveries : (Exists(t) /\ Status(t) # "queued") => EntryCount(t) = 0
    /\ \A t \in Deliveries : ~Exists(t) => EntryCount(t) = 0
    /\ Cardinality({t \in Deliveries : JustDequeued(t)}) <= 1

\* C38 as stated: in the sequential stage every queued task has exactly one
\* entry in the internal queue or is the entry the worker has just taken
\* and not yet marked processing; no id has two entries and no task that
\* left queued has one.
C38_QueuedHasEntry ==
    stage = "c" =>
        /\ NoStaleEntry
        /\ \A t \in Deliveries :
            (Exists(t) /\ Status(t) = "queued")
            => (EntryCount(t) = 1) # JustDequeued(t)

\* C38, amended: as stated, except that a queued task may also be the one
\* on_message has just created and not yet put on the queue; a queued task
\* is in exactly one of the three places.
C38_QueuedHasEntryOnceEnqueued ==
    stage = "c" =>
        /\ NoStaleEntry
        /\ \A t \in Deliveries :
            (Exists(t) /\ Status(t) = "queued")
            => Cardinality({p \in {"created", "entry", "dequeued"} :
                    \/ p = "created" /\ JustCreated(t)
                    \/ p = "entry" /\ EntryCount(t) = 1
                    \/ p = "dequeued" /\ JustDequeued(t)}) = 1

\* One queued task waits in the queue and on_message has just created the
\* record of a second one, which it has not put on the queue yet.
C38_Witness ==
    /\ stage = "c"
    /\ \E t, u \in Deliveries :
        /\ t # u
        /\ Exists(t) /\ Status(t) = "queued" /\ EntryCount(t) = 1
        /\ Exists(u) /\ Status(u) = "queued" /\ JustCreated(u)

\* C39: in the parallel stage an ack or nack is handed to, and runs on, the
\* connection and channel its delivery arrived on: every callback waiting
\* on the open connection is for a delivery of that connection, and every
\* ack or nack that reached a channel reached the channel of its delivery
\* while it was open; the tag of a delivery of a lost connection is never
\* acked or nacked on a later channel.
C39_OwnChannelOnly ==
    stage = "b" =>
        /\ \A i \in DOMAIN callbacks : dlive[callbacks[i][2]]
        /\ \A d \in Deliveries : \A i \in DOMAIN applied[d] : applied[d][i].live
        /\ \A d \in Deliveries : (Made(d) /\ ~dlive[d]) => ~Pending(d)

\* After a reconnection: the ack of the old delivery raised at the
\* hand-off and reached no channel, the message was delivered again and the
\* ack of the new delivery ran on the new channel.
C39_Witness ==
    /\ stage = "b"
    /\ \E d, e \in Deliveries :
        /\ d < e
        /\ dmsg[d] = dmsg[e]
        /\ "ack" \in Range(issued[d])
        /\ applied[d] = <<>>
        /\ Len(applied[e]) = 1
        /\ applied[e][1].op = "ack"
        /\ applied[e][1].live

\* ======================= producer stage (agent_a_web): POST /run and its
\* background task execute_cli_command
\* str(e) of an exception raised by runner.invoke(..., catch_exceptions=False)
CliError == "CliError"
\* f"Command failed with exit code {result.exit_code}"
ExitCodeError == "Command failed with exit code"

\* RunResponse(success, exit_code, output, error).model_dump(): success and
\* exit_code follow from the error text (None: exit code 0).
RunResponse(error) == [success |-> error = NoText, error |-> error]

\* tasks_storage[task_id] = {"status": "pending", ..., "result": None}
NewSubmission ==
    [status |-> "pending", submitted_at |-> Now(NoTime), started_at |-> NoTime,
     completed_at |-> NoTime, result |-> NoText]

\* Positions of execute_cli_command between which it does not await: from
\* the return of run_in_executor to its own end it runs on the event loop
\* without yielding, publish_message being a blocking call.
Publishing == {"publish", "except_publish"}
LoopFree == \A w \in Threads : wpc[w] \notin Publishing

\* publish_message has returned or raised into its caller, who goes on.
Returned == [Idle EXCEPT !.message = publisher.message]

\* POST /run: a new task id, the record as pending,
\* background_tasks.add_task(execute_cli_command, task_id, request).
run_cli_command ==
    /\ LoopFree
    /\ \E w \in Threads, t \in Deliveries :
        /\ wpc[w] = "none"
        /\ \A v \in Threads : wpc[v] = "none" => w <= v
        /\ ~Exists(t)
        /\ \A u \in Deliveries : ~Exists(u) => t <= u
        /\ tasks_storage' = [tasks_storage EXCEPT ![t] = NewSubmission]
        /\ wd' = [wd EXCEPT ![w] = t]
        /\ wpc' = [wpc EXCEPT ![w] = "start"]
    /\ UNCHANGED <<stage, prefetch_count, pubVars, query, laneVars, regVars, brokerVars, connVars,
                   chanVars, mpc, md, workq, wexc, seqVars>>

\* execute_cli_command: status running, started_at; then
\* await loop.run_in_executor(None, lambda: runner.invoke(...)).
execute_cli_command_start(w) ==
    /\ LoopFree
    /\ wpc[w] = "start"
    /\ tasks_storage' = [tasks_storage EXCEPT ![wd[w]] =
            [@ EXCEPT !.status = "running", !.started_at = Now(@)]]
    /\ wpc' = [wpc EXCEPT ![w] = "invoke"]
    /\ UNCHANGED <<stage, prefetch_count, pubVars, query, laneVars, regVars, brokerVars, connVars,
                   chanVars, mpc, md, workq, wd, wexc, seqVars>>

\* The invocation is over: it returned a result (exit code 0 or not), from
\* which run_response is built, or it raised into `except Exception`, which
\* builds run_response from str(e).
execute_cli_command_invoke(w) ==
    /\ LoopFree
    /\ wpc[w] = "invoke"
    /\ \/ /\ \E error \in {NoText, ExitCodeError} : wexc' = [wexc EXCEPT ![w] = error]
          /\ wpc' = [wpc EXCEPT ![w] = "publish"]
       \/ /\ wexc' = [wexc EXCEPT ![w] = CliError]
          /\ wpc' = [wpc EXCEPT ![w] = "except_publish"]
    /\ UNCHANGED <<stage, prefetch_count, pubVars, query, laneVars, regVars, brokerVars, connVars,
                   chanVars, mpc, md, tasks_storage, workq, wd, seqVars>>

\* publish_message(queue_name="data.ingest.done", message={"response":
\* run_response.model_dump()}, task_id=task_id), in the try block and in
\* the except block.
execute_cli_command_publish ==
    /\ \E w \in Threads : wpc[w] \in Publishing
    /\ publish_message

\* The task is over: the coroutine has returned or an exception left it.
Over(w, how) ==
    /\ wpc' = [wpc EXCEPT ![w] = how]
    /\ wd' = [wd EXCEPT ![w] = IF how = "none" THEN 0 ELSE @]
    /\ wexc' = [wexc EXCEPT ![w] = IF how = "none" THEN NoText ELSE @]

\* try block after publish_message: whatever it returned, status completed,
\* completed_at, result; an exception it raised goes to `except Exception`,
\* which builds run_response from str(e) and publishes.
execute_cli_command_completed(w) ==
    /\ wpc[w] = "publish"
    /\ publisher.pc = "done"
    /\ publisher' = Returned
    /\ IF publisher.result = "raised"
       THEN /\ wexc' = [wexc EXCEPT ![w] = publisher.error]
            /\ wpc' = [wpc EXCEPT ![w] = "except_publish"]
            /\ UNCHANGED <<tasks_storage, wd>>
       ELSE /\ tasks_storage' = [tasks_storage EXCEPT ![wd[w]] =
                    [@ EXCEPT !.status = "completed", !.completed_at = Now(@),
                              !.result = RunResponse(wexc[w])]]
            /\ Over(w, "none")
    /\ UNCHANGED <<stage, prefetch_count, queue, query, laneVars, regVars, brokerVars, connVars,
                   chanVars, mpc, md, workq, seqVars>>

\* except block after publish_message: whatever it returned, status failed,
\* completed_at, result; an exception it raised leaves execute_cli_command.
execute_cli_command_failed(w) ==
    /\ wpc[w] = "except_publish"
    /\ publisher.pc = "done"
    /\ publisher' = Returned
    /\ IF publisher.result = "raised"
       THEN /\ Over(w, "raised")
            /\ UNCHANGED tasks_storage
       ELSE /\ tasks_storage' = [tasks_storage EXCEPT ![wd[w]] =
                    [@ EXCEPT !.status = "failed", !.completed_at = Now(@),
                              !.result = RunResponse(wexc[w])]]
            /\ Over(w, "none")
    /\ UNCHANGED <<stage, prefetch_count, queue, query, laneVars, regVars, brokerVars, connVars,
                   chanVars, mpc, md, workq, seqVars>>

NextProducer ==
    \/ run_cli_command
    \/ \E w \in Threads : execute_cli_command_start(w)
    \/ \E w \in Threads : execute_cli_command_invoke(w)
    \/ execute_cli_command_publish
    \/ get_connection
    \/ open_channel
    \/ queue_declare
    \/ json_dumps
    \/ basic_publish
    \/ publish_except
    \/ publish_finally
    \/ \E w \in Threads : execute_cli_command_completed(w)
    \/ \E w \in Threads : execute_cli_command_failed(w)

SpecProducer == InitPublish /\ [][NextProducer]_vars

\* The invocation of the task has returned / has raised, as its
\* run_response tells.
InvocationReturned(error) == error \in {NoText, ExitCodeError}
InvocationRaised(error) == error = CliError

\* C40: in the producer stage every submitted task makes exactly one publish
\* attempt, after its CLI invocation has ended and before its status is
\* terminal; it ends completed when the invocation returned and failed when
\* it raised, whatever the publish returned.  In terms of the state: the
\* publish call of the except block handles the exception of the
\* invocation (the task has not published before), no background task ends
\* by an exception with its task left running, and the result stored with
\* completed is that of a returned invocation, the one stored with failed
\* that of a raised one.
C40_OnePublishThenTerminal ==
    /\ \A w \in Threads :
        wpc[w] = "except_publish" => InvocationRaised(wexc[w])
    /\ \A w \in Threads : wpc[w] # "raised"
    /\ \A t \in Deliveries :
        Exists(t) =>
            /\ Status(t) = "completed" => InvocationReturned(tasks_storage[t].result.error)
            /\ Status(t) = "failed" => InvocationRaised(tasks_storage[t].result.error)

====
